---- MODULE Spec2Model ----
(***************************************************************************)
(* Skylos (skylos-rs): the dead-code analyzer's per-file workers and the   *)
(* cross-file aggregator of Skylos::analyze.                                *)
(*                                                                         *)
(* Text is modelled as a sequence of one-character strings, so that the    *)
(* string tests of the code (starts_with, ends_with, contains, split,      *)
(* lines) are computed on the characters.  A character that takes two      *)
(* bytes in UTF-8 is written "U+00E9".                                     *)
(***************************************************************************)
EXTENDS Integers, Sequences, FiniteSets, TLC

(***************************************************************************)
(* Bounds of the model                                                     *)
(***************************************************************************)
\* Largest number of files under the analyzed root.
MaxFiles == 2

(***************************************************************************)
(* Strings (std::str) and paths (std::path)                                *)
(***************************************************************************)
None == <<>>

Some(x) == <<x>>

Range(s) == {s[i] : i \in 1..Len(s)}

\* `let w = v; F(w)`: the value of F at v, with v evaluated once.
Bind(v, F(_)) == CHOOSE r \in {F(w) : w \in {v}} : TRUE

\* `for x in &xs[i..] { v = step(v, x) }`
RECURSIVE FoldFrom(_, _, _, _)
FoldFrom(step(_, _), v, xs, i) ==
    IF i > Len(xs) THEN v
    ELSE Bind(step(v, xs[i]), LAMBDA w : FoldFrom(step, w, xs, i + 1))

\* `for x in &xs { v = step(v, x) }`
Fold(step(_, _), init, xs) ==
    Bind(init, LAMBDA v : Bind(xs, LAMBDA ys : FoldFrom(step, v, ys, 1)))

\* The indexes of the characters c of a text, in increasing order.
Positions(s, c) ==
    Bind(s, LAMBDA t : SelectSeq([i \in 1..Len(t) |-> i], LAMBDA i : t[i] = c))

\* str::starts_with
StartsWith(s, p) == Len(s) >= Len(p) /\ SubSeq(s, 1, Len(p)) = p

\* str::ends_with
EndsWith(s, p) == Len(s) >= Len(p) /\ SubSeq(s, Len(s) - Len(p) + 1, Len(s)) = p

\* str::contains
Contains(s, p) ==
    Bind(s, LAMBDA t : \E i \in 1..(Len(t) - Len(p) + 1) : SubSeq(t, i, i + Len(p) - 1) = p)

\* [String]::join
Join(parts, sep) ==
    Bind(parts, LAMBDA ps :
        IF ps = <<>> THEN <<>>
        ELSE Fold(LAMBDA joined, part : joined \o sep \o part, ps[1], Tail(ps)))

\* str::split(c): the pieces between the occurrences of the character c.
Split(s, c) ==
    Bind(s, LAMBDA t :
    Bind(<<0>> \o Positions(t, c) \o <<Len(t) + 1>>, LAMBDA cuts :
        [k \in 1..(Len(cuts) - 1) |-> SubSeq(t, cuts[k] + 1, cuts[k + 1] - 1)]))

\* name.split('.').last().unwrap_or(&name)
LastSegment(name) == Bind(Split(name, "."), LAMBDA parts : parts[Len(parts)])

\* Number of bytes of one character in UTF-8.
ByteLen(c) == IF c = "U+00E9" THEN 2 ELSE 1

\* str::len: the length in bytes.
Bytes(s) == Bind(s, LAMBDA t : Len(t) + Cardinality({i \in 1..Len(t) : ByteLen(t[i]) = 2}))

\* str::lines: split at "\n", drop one "\r" before it, no empty last line.
Lines(s) ==
    Bind(s, LAMBDA t :
    Bind(Positions(t, "\n"), LAMBDA nl :
    Bind(<<0>> \o nl \o (IF t # <<>> /\ t[Len(t)] # "\n" THEN <<Len(t) + 1>> ELSE <<>>),
         LAMBDA cuts :
        [k \in 1..(Len(cuts) - 1) |->
            Bind(SubSeq(t, cuts[k] + 1, cuts[k + 1] - 1), LAMBDA raw :
                IF k <= Len(nl) /\ raw # <<>> /\ raw[Len(raw)] = "\r"
                THEN SubSeq(raw, 1, Len(raw) - 1) ELSE raw)])))

\* Path::file_name: the last component of the path.
FileName(path) == Bind(Split(path, "/"), LAMBDA parts : parts[Len(parts)])

\* Path::file_stem: the file name up to its last dot (the whole name when it
\* has no dot, or only a leading one).
FileStem(path) ==
    Bind(FileName(path), LAMBDA name :
    Bind(SelectSeq(Positions(name, "."), LAMBDA i : i > 1), LAMBDA dots :
        IF dots = <<>> THEN name ELSE SubSeq(name, 1, dots[Len(dots)] - 1)))

\* Path::extension: what follows the last dot of the file name, if any.
Extension(path) ==
    Bind(FileName(path), LAMBDA name :
    Bind(SelectSeq(Positions(name, "."), LAMBDA i : i > 1), LAMBDA dots :
        IF dots = <<>> THEN None
        ELSE Some(SubSeq(name, dots[Len(dots)] + 1, Len(name)))))

(***************************************************************************)
(* utils.rs: LineIndex and the pragma scanner                              *)
(***************************************************************************)
PragmaText == <<"p","r","a","g","m","a",":"," ","n","o"," ","s","k","y","l","o","s">>

\* Byte offset of the i-th character (1-based) of s.
ByteOffset(s, i) == Bytes(SubSeq(s, 1, i - 1))

\* LineIndex::new that records the offset of each newline, not the offset after
\* it.
LineIndex_new_at_newline(source) ==
    Bind(source, LAMBDA text :
    Bind(Positions(text, "\n"), LAMBDA nl :
        <<0>> \o [k \in 1..Len(nl) |-> ByteOffset(text, nl[k])]))

\* LineIndex::new: offset 0 and the offset after every newline, in the order
\* of the text.
LineIndex_new(source) ==
    Bind(source, LAMBDA text :
    Bind(Positions(text, "\n"), LAMBDA nl :
        <<0>> \o [k \in 1..Len(nl) |-> ByteOffset(text, nl[k]) + 1]))

\* slice::binary_search on a strictly increasing vector: Ok(index) of the
\* element, or Err(index where it would be inserted); indexes from 0.
binary_search(v, x) ==
    Bind(x, LAMBDA key :
        IF \E i \in 1..Len(v) : v[i] = key
        THEN [ok |-> TRUE, index |-> (CHOOSE i \in 1..Len(v) : v[i] = key) - 1]
        ELSE [ok |-> FALSE, index |-> Cardinality({i \in 1..Len(v) : v[i] < key})])

\* line_index without the `+ 1` of the Ok arm: lines counted from 0 when the
\* offset is the first of its line.  C3_PragmaZeroesConfidence fails with it.
line_index_from_zero(line_starts, offset) == binary_search(line_starts, offset).index

\* LineIndex::line_index
line_index(line_starts, offset) ==
    Bind(binary_search(line_starts, offset), LAMBDA r :
        IF r.ok THEN r.index + 1 ELSE r.index)

\* get_ignored_lines
get_ignored_lines(source) ==
    Bind(Lines(source), LAMBDA lines :
        {i + 1 : i \in {j \in 0..(Len(lines) - 1) : Contains(lines[j + 1], PragmaText)}})

(***************************************************************************)
(* The parsed module (rustpython_ast).  An Option is a sequence of length  *)
(* 0 or 1.  Every statement carries `start`, the byte offset of            *)
(* node.range.start(), and the comment that ends its first line.           *)
(***************************************************************************)
Name(id) == [kind |-> "Name", id |-> id, ctx |-> "Load"]

NameStore(id) == [kind |-> "Name", id |-> id, ctx |-> "Store"]

Call(func, args) == [kind |-> "Call", func |-> func, args |-> args, keywords |-> <<>>]

CallKw(func, args, keywords) ==
    [kind |-> "Call", func |-> func, args |-> args, keywords |-> keywords]

Attribute(value, attr) == [kind |-> "Attribute", value |-> value, attr |-> attr]

Str(s) == [kind |-> "Constant", value |-> [type |-> "Str", s |-> s]]

Num(n) == [kind |-> "Constant", value |-> [type |-> "Int", n |-> n]]

Bool(b) == [kind |-> "Constant", value |-> [type |-> "Bool", b |-> b]]

List(elts) == [kind |-> "List", elts |-> elts]

Compare(left, ops, comparators) ==
    [kind |-> "Compare", left |-> left, ops |-> ops, comparators |-> comparators]

BinOp(left, op, right) == [kind |-> "BinOp", left |-> left, op |-> op, right |-> right]

Await(value) == [kind |-> "Await", value |-> value]

Alias(name, asname) == [name |-> name, asname |-> asname]

FunctionDef(name, args, decorator_list, body, comment) ==
    [kind |-> "FunctionDef", name |-> name, args |-> args,
     decorator_list |-> decorator_list, body |-> body, comment |-> comment, start |-> 0]

AsyncFunctionDef(name, args, decorator_list, body, comment) ==
    [kind |-> "AsyncFunctionDef", name |-> name, args |-> args,
     decorator_list |-> decorator_list, body |-> body, comment |-> comment, start |-> 0]

ClassDef(name, bases, body, comment) ==
    [kind |-> "ClassDef", name |-> name, bases |-> bases, body |-> body,
     comment |-> comment, start |-> 0]

Import(names, comment) ==
    [kind |-> "Import", names |-> names, comment |-> comment, start |-> 0]

ImportFrom(module, names, comment) ==
    [kind |-> "ImportFrom", module |-> module, names |-> names, comment |-> comment,
     start |-> 0]

Assign(targets, value, comment) ==
    [kind |-> "Assign", targets |-> targets, value |-> value, comment |-> comment,
     start |-> 0]

ExprStmt(value, comment) ==
    [kind |-> "Expr", value |-> value, comment |-> comment, start |-> 0]

If(test, body, orelse) ==
    [kind |-> "If", test |-> test, body |-> body, orelse |-> orelse, comment |-> <<>>,
     start |-> 0]

Return(value) == [kind |-> "Return", value |-> value, comment |-> <<>>, start |-> 0]

Pass == [kind |-> "Pass", comment |-> <<>>, start |-> 0]

Raise(exc) == [kind |-> "Raise", exc |-> exc, comment |-> <<>>, start |-> 0]

AugAssign(target, op, value) ==
    [kind |-> "AugAssign", target |-> target, op |-> op, value |-> value,
     comment |-> <<>>, start |-> 0]

HasBody(stmt) == stmt.kind \in {"FunctionDef", "AsyncFunctionDef", "ClassDef", "If"}

(***************************************************************************)
(* The source text of a module and the offsets the parser reports for it.  *)
(* A statement starts a line of its own, its body is indented by four      *)
(* spaces, and a decorator takes the line before the `def`; the node of a  *)
(* decorated function starts at `def`, as tests/framework_test.rs expects  *)
(* (the function under the decorator of line 2 is on line 3).              *)
(***************************************************************************)
\* The characters of a string literal: a newline and a tab are written as
\* escapes.
Escaped(s) ==
    Join([i \in 1..Len(s) |->
             IF s[i] = "\n" THEN <<"\\", "n">>
             ELSE IF s[i] = "\t" THEN <<"\\", "t">>
             ELSE <<s[i]>>],
         <<>>)

RECURSIVE ExprText(_)
ExprText(e) ==
    LET Each(es) == [i \in 1..Len(es) |-> ExprText(es[i])]
    IN  CASE e.kind = "Name" -> e.id
          [] e.kind = "Attribute" -> ExprText(e.value) \o <<".">> \o e.attr
          [] e.kind = "Call" ->
                ExprText(e.func) \o <<"(">>
                \o Join(Each(e.args)
                        \o [i \in 1..Len(e.keywords) |->
                               e.keywords[i].arg \o <<"=">> \o ExprText(e.keywords[i].value)],
                        <<","," ">>)
                \o <<")">>
          [] e.kind = "Constant" ->
                IF e.value.type = "Str" THEN <<"'">> \o Escaped(e.value.s) \o <<"'">>
                ELSE IF e.value.type = "Bool"
                THEN (IF e.value.b THEN <<"T","r","u","e">> ELSE <<"F","a","l","s","e">>)
                ELSE <<"0">>
          [] e.kind = "List" -> <<"[">> \o Join(Each(e.elts), <<","," ">>) \o <<"]">>
          [] e.kind = "Compare" ->
                ExprText(e.left) \o <<" ">> \o e.ops[1] \o <<" ">> \o ExprText(e.comparators[1])
          [] e.kind = "BinOp" ->
                ExprText(e.left) \o <<" ">> \o e.op \o <<" ">> \o ExprText(e.right)
          [] e.kind = "Await" -> <<"a","w","a","i","t"," ">> \o ExprText(e.value)
          [] OTHER -> <<".",".",".">>

AliasText(a) == a.name \o (IF a.asname = None THEN <<>> ELSE <<" ","a","s"," ">> \o a.asname[1])

\* The first line of a statement, without indentation and comment.
HeaderText(s) ==
    CASE s.kind = "FunctionDef" ->
            <<"d","e","f"," ">> \o s.name \o <<"(">> \o Join(s.args, <<","," ">>) \o <<")",":">>
      [] s.kind = "AsyncFunctionDef" ->
            <<"a","s","y","n","c"," ","d","e","f"," ">> \o s.name \o <<"(">> \o Join(s.args, <<","," ">>) \o <<")",":">>
      [] s.kind = "ClassDef" ->
            <<"c","l","a","s","s"," ">> \o s.name
            \o (IF s.bases = <<>> THEN <<>>
                ELSE <<"(">> \o Join([i \in 1..Len(s.bases) |-> ExprText(s.bases[i])], <<","," ">>)
                     \o <<")">>)
            \o <<":">>
      [] s.kind = "Import" ->
            <<"i","m","p","o","r","t"," ">> \o Join([i \in 1..Len(s.names) |-> AliasText(s.names[i])], <<","," ">>)
      [] s.kind = "ImportFrom" ->
            <<"f","r","o","m"," ">> \o (IF s.module = None THEN <<".">> ELSE s.module[1]) \o <<" ","i","m","p","o","r","t"," ">>
            \o Join([i \in 1..Len(s.names) |-> AliasText(s.names[i])], <<","," ">>)
      [] s.kind = "Assign" ->
            Join([i \in 1..Len(s.targets) |-> ExprText(s.targets[i])], <<" ","="," ">>)
            \o <<" ","="," ">> \o ExprText(s.value)
      [] s.kind = "Expr" -> ExprText(s.value)
      [] s.kind = "If" -> <<"i","f"," ">> \o ExprText(s.test) \o <<":">>
      [] s.kind = "Return" ->
            <<"r","e","t","u","r","n">> \o (IF s.value = None THEN <<>> ELSE <<" ">> \o ExprText(s.value[1]))
      [] s.kind = "Raise" ->
            <<"r","a","i","s","e">> \o (IF s.exc = None THEN <<>> ELSE <<" ">> \o ExprText(s.exc[1]))
      [] s.kind = "AugAssign" ->
            ExprText(s.target) \o <<" ">> \o s.op \o <<"="," ">> \o ExprText(s.value)
      [] OTHER -> <<"p","a","s","s">>

Indent(n) == [i \in 1..n |-> " "]

\* The text of one statement (with its body), written from byte offset `off`
\* at indentation `ind`, and the statement with the offsets of its nodes
\* filled in.  Emit does the same for a sequence of statements.
RECURSIVE Emit(_, _, _)
RECURSIVE EmitStmt(_, _, _)
EmitStmt(s, ind, off) ==
    LET decorators == IF s.kind \in {"FunctionDef", "AsyncFunctionDef"}
                      THEN s.decorator_list ELSE <<>>
        decoText == Join([i \in 1..Len(decorators) |->
                            Indent(ind) \o <<"@">> \o ExprText(decorators[i]) \o <<"\n">>],
                         <<>>)
        start == off + Bytes(decoText) + ind
        head == decoText \o Indent(ind) \o HeaderText(s) \o s.comment \o <<"\n">>
        elseLine == IF s.kind = "If" /\ s.orelse # <<>>
                    THEN Indent(ind) \o <<"e","l","s","e",":">> \o <<"\n">> ELSE <<>>
        empty == [text |-> <<>>, ast |-> <<>>]
    IN  Bind(IF HasBody(s) THEN Emit(s.body, ind + 4, off + Bytes(head)) ELSE empty,
             LAMBDA body :
        Bind(IF s.kind = "If"
             THEN Emit(s.orelse, ind + 4,
                       off + Bytes(head) + Bytes(body.text) + Bytes(elseLine))
             ELSE empty,
             LAMBDA orelse :
            [text |-> head \o body.text \o elseLine \o orelse.text,
             node |-> IF s.kind = "If"
                      THEN [s EXCEPT !.start = start, !.body = body.ast,
                                     !.orelse = orelse.ast]
                      ELSE IF HasBody(s)
                      THEN [s EXCEPT !.start = start, !.body = body.ast]
                      ELSE [s EXCEPT !.start = start]]))

Emit(stmts, ind, off) ==
    Fold(LAMBDA done, s :
             Bind(EmitStmt(s, ind, off + Bytes(done.text)), LAMBDA one :
                 [text |-> done.text \o one.text, ast |-> Append(done.ast, one.node)]),
         [text |-> <<>>, ast |-> <<>>], stmts)

(***************************************************************************)
(* visitor.rs: SkylosVisitor, the definition/reference visitor.  The       *)
(* visitor value v holds the fields the traversal reads or writes.         *)
(***************************************************************************)
SkylosVisitor_new(file_path, module_name) ==
    [definitions |-> <<>>, references |-> <<>>, exports |-> <<>>, class_stack |-> <<>>,
     file_path |-> file_path, module_name |-> module_name]

\* simple_name.starts_with("__") && simple_name.ends_with("__")
is_dunder(simple_name) == StartsWith(simple_name, <<"_","_">>) /\ EndsWith(simple_name, <<"_","_">>)

\* is_implicitly_used without the dunder test.  C9_ImplicitlyUsedNeverReported
\* fails with it.
is_implicitly_used_without_dunder(simple_name) ==
    \/ StartsWith(simple_name, <<"t","e","s","t","_">>)
    \/ StartsWith(simple_name, <<"v","i","s","i","t","_">>)
    \/ StartsWith(simple_name, <<"l","e","a","v","e","_">>)
    \/ StartsWith(simple_name, <<"o","n","_">>)
    \/ simple_name \in {<<"m","a","i","n">>, <<"r","u","n">>, <<"e","x","e","c","u","t","e">>}

is_implicitly_used(simple_name) ==
    LET is_test == StartsWith(simple_name, <<"t","e","s","t","_">>)
        is_dynamic_pattern ==
            \/ StartsWith(simple_name, <<"v","i","s","i","t","_">>)
            \/ StartsWith(simple_name, <<"l","e","a","v","e","_">>)
            \/ StartsWith(simple_name, <<"o","n","_">>)
        is_standard_entry == simple_name \in {<<"m","a","i","n">>, <<"r","u","n">>, <<"e","x","e","c","u","t","e">>}
    IN  is_test \/ is_dynamic_pattern \/ is_standard_entry \/ is_dunder(simple_name)

add_def_with_bases(v, name, def_type, line, base_classes) ==
    Bind(v, LAMBDA self :
    Bind(LastSegment(name), LAMBDA simple_name :
    Bind(is_implicitly_used(simple_name), LAMBDA implicit :
        LET in_init == FileName(self.file_path) = <<"_","_","i","n","i","t","_","_",".","p","y">>
            references == IF implicit THEN 1 ELSE 0
            definition ==
                [name |-> name, full_name |-> name, simple_name |-> simple_name,
                 def_type |-> def_type, file |-> self.file_path, line |-> line,
                 confidence |-> 100, references |-> references,
                 is_exported |-> implicit, in_init |-> in_init,
                 base_classes |-> base_classes]
        IN  [self EXCEPT !.definitions = Append(@, definition)])))

\* An add_def that records an imported name as a variable.
\* C29_NoVariableDefinitions fails with it.
add_def_import_as_variable(v, name, def_type, line) ==
    add_def_with_bases(v, name, IF def_type = "import" THEN "variable" ELSE def_type,
                       line, <<>>)

add_def(v, name, def_type, line) == add_def_with_bases(v, name, def_type, line, <<>>)

add_ref(v, name) ==
    Bind(v, LAMBDA self :
        [self EXCEPT !.references = Append(@, [name |-> name, file |-> self.file_path])])

\* The module name (unless empty), the class stack and the name, joined by dots.
QualifiedIn(module_name, class_stack, name) ==
    Join((IF module_name # <<>> THEN <<module_name>> ELSE <<>>) \o class_stack \o <<name>>,
         <<".">>)

\* A pop that leaves the vector as it is.  C28_ClassStackNamesDefinitions
\* fails with it.
pop_nothing(vec) == vec

\* Vec::pop, on the class stack
pop(vec) == SubSeq(vec, 1, Len(vec) - 1)

get_qualified_name(v, name) == QualifiedIn(v.module_name, v.class_stack, name)

\* The traversal without the elements of a list.
\* C30_ListedInAllIsNotReported fails with it.
TraversedChildren_without_lists(e) ==
    LET Generators(gs) ==
            Join([i \in 1..Len(gs) |-> <<gs[i].iter>> \o gs[i].ifs], <<>>)
    IN  CASE e.kind = "BoolOp" -> e.values
          [] e.kind = "BinOp" -> <<e.left, e.right>>
          [] e.kind = "UnaryOp" -> <<e.operand>>
          [] e.kind = "Lambda" -> <<e.body>>
          [] e.kind = "IfExp" -> <<e.test, e.body, e.orelse>>
          [] e.kind = "Dict" ->
                Join([i \in 1..Len(e.values) |-> e.keys[i] \o <<e.values[i]>>], <<>>)
          [] e.kind \in {"Set", "Tuple"} -> e.elts
          [] e.kind \in {"ListComp", "SetComp", "GeneratorExp"} ->
                <<e.elt>> \o Generators(e.generators)
          [] e.kind = "DictComp" -> <<e.key, e.value>> \o Generators(e.generators)
          [] e.kind \in {"Await", "YieldFrom", "FormattedValue"} -> <<e.value>>
          [] e.kind = "Yield" -> e.value
          [] e.kind = "Compare" -> <<e.left>> \o e.comparators
          [] e.kind = "Subscript" -> <<e.value, e.slice>>
          [] e.kind = "JoinedStr" -> e.values
          [] e.kind = "Slice" -> e.lower \o e.upper \o e.step
          [] OTHER -> <<>>

\* The sub-expressions visit_expr recurses into for the expressions it only
\* traverses, in the order it visits them.
TraversedChildren(e) ==
    LET Generators(gs) ==
            Join([i \in 1..Len(gs) |-> <<gs[i].iter>> \o gs[i].ifs], <<>>)
    IN  CASE e.kind = "BoolOp" -> e.values
          [] e.kind = "BinOp" -> <<e.left, e.right>>
          [] e.kind = "UnaryOp" -> <<e.operand>>
          [] e.kind = "Lambda" -> <<e.body>>
          [] e.kind = "IfExp" -> <<e.test, e.body, e.orelse>>
          [] e.kind = "Dict" ->
                Join([i \in 1..Len(e.values) |-> e.keys[i] \o <<e.values[i]>>], <<>>)
          [] e.kind \in {"Set", "List", "Tuple"} -> e.elts
          [] e.kind \in {"ListComp", "SetComp", "GeneratorExp"} ->
                <<e.elt>> \o Generators(e.generators)
          [] e.kind = "DictComp" -> <<e.key, e.value>> \o Generators(e.generators)
          [] e.kind \in {"Await", "YieldFrom", "FormattedValue"} -> <<e.value>>
          [] e.kind = "Yield" -> e.value
          [] e.kind = "Compare" -> <<e.left>> \o e.comparators
          [] e.kind = "Subscript" -> <<e.value, e.slice>>
          [] e.kind = "JoinedStr" -> e.values
          [] e.kind = "Slice" -> e.lower \o e.upper \o e.step
          [] OTHER -> <<>>

\* visit_expr without the case of self and cls: every attribute access on a
\* name records the name, `name.attr` and the attribute.
\* C25_OwnMethodAccessIsQualified fails with it.
RECURSIVE SkylosVisitor_visit_expr_loose(_, _)
SkylosVisitor_visit_expr_loose(v, expr) ==
    LET Each(w, es) == Fold(LAMBDA x, e : SkylosVisitor_visit_expr_loose(x, e), w, es)
    IN  CASE expr.kind = "Name" ->
                IF expr.ctx = "Load" THEN add_ref(v, expr.id) ELSE v
          [] expr.kind = "Call" ->
                Each(v, <<expr.func>> \o expr.args
                        \o [i \in 1..Len(expr.keywords) |-> expr.keywords[i].value])
          [] expr.kind = "Attribute" ->
                Bind(IF expr.value.kind = "Name"
                     THEN add_ref(add_ref(add_ref(v, expr.value.id),
                                          expr.value.id \o <<".">> \o expr.attr),
                                  expr.attr)
                     ELSE v,
                     LAMBDA w : SkylosVisitor_visit_expr_loose(w, expr.value))
          [] expr.kind = "Constant" ->
                IF expr.value.type = "Str"
                THEN LET s == expr.value.s
                     IN  IF ~Contains(s, <<" ">>) /\ ~Contains(s, <<".">>) /\ s # <<>>
                         THEN add_ref(v, s) ELSE v
                ELSE v
          [] OTHER -> Each(v, TraversedChildren(expr))

RECURSIVE SkylosVisitor_visit_expr(_, _)
SkylosVisitor_visit_expr(v, expr) ==
    LET Each(w, es) == Fold(LAMBDA x, e : SkylosVisitor_visit_expr(x, e), w, es)
    IN  CASE expr.kind = "Name" ->
                IF expr.ctx = "Load" THEN add_ref(v, expr.id) ELSE v
          [] expr.kind = "Call" ->
                Each(v, <<expr.func>> \o expr.args
                        \o [i \in 1..Len(expr.keywords) |-> expr.keywords[i].value])
          [] expr.kind = "Attribute" ->
                Bind(IF expr.value.kind = "Name"
                     THEN LET base_id == expr.value.id
                          IN  IF base_id \in {<<"s","e","l","f">>, <<"c","l","s">>} /\ v.class_stack # <<>>
                              THEN add_ref(v, QualifiedIn(v.module_name, v.class_stack,
                                                          expr.attr))
                              ELSE add_ref(add_ref(add_ref(v, base_id),
                                                   base_id \o <<".">> \o expr.attr),
                                           expr.attr)
                     ELSE v,
                     LAMBDA w : SkylosVisitor_visit_expr(w, expr.value))
          [] expr.kind = "Constant" ->
                IF expr.value.type = "Str"
                THEN LET s == expr.value.s
                     IN  IF ~Contains(s, <<" ">>) /\ ~Contains(s, <<".">>) /\ s # <<>>
                         THEN add_ref(v, s) ELSE v
                ELSE v
          [] OTHER -> Each(v, TraversedChildren(expr))

RECURSIVE SkylosVisitor_visit_stmt(_, _, _)
RECURSIVE visit_function_def(_, _, _, _, _)
SkylosVisitor_visit_stmt(v, li, stmt) ==
    LET Body(w, stmts) == Fold(LAMBDA x, s : SkylosVisitor_visit_stmt(x, li, s), w, stmts)
        Base(w, base) ==
            LET w1 == SkylosVisitor_visit_expr(w, base)
            IN  IF base.kind = "Name"
                THEN LET w3 == add_ref(w1, base.id)
                     IN  IF w.module_name # <<>>
                         THEN add_ref(w3, w.module_name \o <<".">> \o base.id)
                         ELSE w3
                ELSE w1
        Bases(w, bases) == Fold(Base, w, bases)
        Aliases(w, names, line) ==
            Bind(line, LAMBDA l :
                Fold(LAMBDA x, alias :
                         add_def(x, IF alias.asname # None THEN alias.asname[1]
                                    ELSE alias.name,
                                 "import", l),
                     w, names))
    IN  CASE stmt.kind \in {"FunctionDef", "AsyncFunctionDef"} ->
                visit_function_def(v, li, stmt.name, stmt.body, stmt.start)
          [] stmt.kind = "ClassDef" ->
                LET qualified_name == get_qualified_name(v, stmt.name)
                    line == line_index(li, stmt.start)
                    named == SelectSeq(stmt.bases, LAMBDA b : b.kind \in {"Name", "Attribute"})
                    base_classes ==
                        [i \in 1..Len(named) |->
                            IF named[i].kind = "Name" THEN named[i].id ELSE named[i].attr]
                    w1 == add_def_with_bases(v, qualified_name, "class", line, base_classes)
                    w2 == Bases(w1, stmt.bases)
                    w3 == [w2 EXCEPT !.class_stack = Append(@, stmt.name)]
                    w4 == Body(w3, stmt.body)
                IN  [w4 EXCEPT !.class_stack = pop(@)]
          [] stmt.kind = "Import" ->
                Aliases(v, stmt.names, line_index(li, stmt.start))
          [] stmt.kind = "ImportFrom" ->
                IF stmt.module # None /\ stmt.module[1] = <<"_","_","f","u","t","u","r","e","_","_">> THEN v
                ELSE Aliases(v, stmt.names, line_index(li, stmt.start))
          [] stmt.kind = "Assign" ->
                LET first == IF stmt.targets # <<>> THEN Some(stmt.targets[1]) ELSE None
                    strs == IF /\ first # None
                               /\ first[1].kind = "Name"
                               /\ first[1].id = <<"_","_","a","l","l","_","_">>
                               /\ stmt.value.kind = "List"
                            THEN SelectSeq(stmt.value.elts,
                                           LAMBDA e : e.kind = "Constant" /\ e.value.type = "Str")
                            ELSE <<>>
                IN  Bind([v EXCEPT !.exports = @ \o [i \in 1..Len(strs) |-> strs[i].value.s]],
                         LAMBDA w : SkylosVisitor_visit_expr(w, stmt.value))
          [] stmt.kind = "Expr" -> SkylosVisitor_visit_expr(v, stmt.value)
          [] stmt.kind = "If" ->
                Body(Body(SkylosVisitor_visit_expr(v, stmt.test), stmt.body), stmt.orelse)
          [] stmt.kind = "Return" ->
                IF stmt.value # None THEN SkylosVisitor_visit_expr(v, stmt.value[1]) ELSE v
          [] OTHER -> v

visit_function_def(v, li, name, body, range_start) ==
    LET qualified_name == get_qualified_name(v, name)
        line == line_index(li, range_start)
        def_type == IF v.class_stack # <<>> THEN "method" ELSE "function"
    IN  Fold(LAMBDA x, s : SkylosVisitor_visit_stmt(x, li, s),
             add_def(v, qualified_name, def_type, line), body)

(***************************************************************************)
(* framework.rs: FrameworkAwareVisitor                                     *)
(***************************************************************************)
FRAMEWORK_IMPORTS ==
    {<<"f","l","a","s","k">>, <<"f","a","s","t","a","p","i">>, <<"d","j","a","n","g","o">>, <<"r","e","s","t","_","f","r","a","m","e","w","o","r","k">>, <<"p","y","d","a","n","t","i","c">>, <<"c","e","l","e","r","y">>,
     <<"s","t","a","r","l","e","t","t","e">>, <<"u","v","i","c","o","r","n">>}

\* char::to_lowercase on the ASCII letters.
LowerChar(c) ==
    CASE c = "A" -> "a"
      [] c = "B" -> "b"
      [] c = "C" -> "c"
      [] c = "D" -> "d"
      [] c = "E" -> "e"
      [] c = "F" -> "f"
      [] c = "G" -> "g"
      [] c = "H" -> "h"
      [] c = "I" -> "i"
      [] c = "J" -> "j"
      [] c = "K" -> "k"
      [] c = "L" -> "l"
      [] c = "M" -> "m"
      [] c = "N" -> "n"
      [] c = "O" -> "o"
      [] c = "P" -> "p"
      [] c = "Q" -> "q"
      [] c = "R" -> "r"
      [] c = "S" -> "s"
      [] c = "T" -> "t"
      [] c = "U" -> "u"
      [] c = "V" -> "v"
      [] c = "W" -> "w"
      [] c = "X" -> "x"
      [] c = "Y" -> "y"
      [] c = "Z" -> "z"
      [] OTHER -> c

\* str::to_lowercase
to_lowercase(s) == Bind(s, LAMBDA t : [i \in 1..Len(t) |-> LowerChar(t[i])])

FrameworkAwareVisitor_new ==
    [is_framework_file |-> FALSE, detected_frameworks |-> {},
     framework_decorated_lines |-> {}]

RECURSIVE get_decorator_name(_)
get_decorator_name(decorator) ==
    CASE decorator.kind = "Name" -> decorator.id
      [] decorator.kind = "Attribute" -> decorator.attr
      [] decorator.kind = "Call" -> get_decorator_name(decorator.func)
      [] OTHER -> <<>>

is_framework_decorator(name) ==
    Bind(to_lowercase(name), LAMBDA lower :
        \/ Contains(lower, <<"r","o","u","t","e">>)
        \/ Contains(lower, <<"g","e","t">>)
        \/ Contains(lower, <<"p","o","s","t">>)
        \/ Contains(lower, <<"p","u","t">>)
        \/ Contains(lower, <<"d","e","l","e","t","e">>)
        \/ Contains(lower, <<"v","a","l","i","d","a","t","o","r">>)
        \/ Contains(lower, <<"t","a","s","k">>))

check_decorators(fv, decorators, line) ==
    IF \E i \in 1..Len(decorators) : is_framework_decorator(get_decorator_name(decorators[i]))
    THEN [fv EXCEPT !.framework_decorated_lines = @ \cup {line},
                    !.is_framework_file = TRUE]
    ELSE fv

RECURSIVE FrameworkAwareVisitor_visit_stmt(_, _, _)
FrameworkAwareVisitor_visit_stmt(fv, li, stmt) ==
    LET Body(w, stmts) ==
            Fold(LAMBDA x, s : FrameworkAwareVisitor_visit_stmt(x, li, s), w, stmts)
    IN  CASE stmt.kind = "Import" ->
                LET found == {fw \in FRAMEWORK_IMPORTS :
                                \E i \in 1..Len(stmt.names) : Contains(stmt.names[i].name, fw)}
                IN  IF found # {}
                    THEN [fv EXCEPT !.is_framework_file = TRUE,
                                    !.detected_frameworks = @ \cup found]
                    ELSE fv
          [] stmt.kind = "ImportFrom" ->
                IF stmt.module # None /\ Split(stmt.module[1], ".")[1] \in FRAMEWORK_IMPORTS
                THEN [fv EXCEPT !.is_framework_file = TRUE,
                                !.detected_frameworks =
                                    @ \cup {Split(stmt.module[1], ".")[1]}]
                ELSE fv
          [] stmt.kind = "FunctionDef" ->
                Body(check_decorators(fv, stmt.decorator_list, line_index(li, stmt.start)),
                     stmt.body)
          [] stmt.kind = "ClassDef" ->
                LET framework_base ==
                        \E i \in 1..Len(stmt.bases) :
                            /\ stmt.bases[i].kind = "Name"
                            /\ LET id == to_lowercase(stmt.bases[i].id)
                               IN  \/ Contains(id, <<"v","i","e","w">>)
                                   \/ Contains(id, <<"m","o","d","e","l">>)
                                   \/ Contains(id, <<"s","c","h","e","m","a">>)
                    w == IF framework_base
                         THEN [fv EXCEPT !.is_framework_file = TRUE,
                                         !.framework_decorated_lines =
                                             @ \cup {line_index(li, stmt.start)}]
                         ELSE fv
                IN  Body(w, stmt.body)
          [] OTHER -> fv

(***************************************************************************)
(* test_utils.rs: TestAwareVisitor                                         *)
(***************************************************************************)
\* Regex (?:^|[/\\])tests?[/\\]|_test\.py$ matched anywhere in the path.
TEST_FILE_RE_is_match(path_str) ==
    \/ \E i \in 1..Len(path_str) :
          /\ i = 1 \/ path_str[i - 1] \in {"/", "\\"}
          /\ \E word \in {<<"t","e","s","t">>, <<"t","e","s","t","s">>} :
                /\ i + Len(word) <= Len(path_str)
                /\ SubSeq(path_str, i, i + Len(word) - 1) = word
                /\ path_str[i + Len(word)] \in {"/", "\\"}
    \/ EndsWith(path_str, <<"_","t","e","s","t",".","p","y">>)

TestAwareVisitor_new(path) ==
    [is_test_file |-> TEST_FILE_RE_is_match(path), test_decorated_lines |-> <<>>]

RECURSIVE TestAwareVisitor_visit_stmt(_, _, _)
TestAwareVisitor_visit_stmt(tv, li, stmt) ==
    LET Body(w, stmts) ==
            Fold(LAMBDA x, s : TestAwareVisitor_visit_stmt(x, li, s), w, stmts)
        marks(s) == Contains(s, <<"p","y","t","e","s","t">>) \/ Contains(s, <<"f","i","x","t","u","r","e">>)
    IN  CASE stmt.kind = "FunctionDef" ->
                LET line == line_index(li, stmt.start)
                    by_name == IF StartsWith(stmt.name, <<"t","e","s","t","_">>) \/ EndsWith(stmt.name, <<"_","t","e","s","t">>)
                               THEN <<line>> ELSE <<>>
                    decorated ==
                        SelectSeq(stmt.decorator_list,
                                  LAMBDA d : \/ d.kind = "Name" /\ marks(d.id)
                                             \/ d.kind = "Attribute" /\ marks(d.attr))
                    w == [tv EXCEPT !.test_decorated_lines =
                                        @ \o by_name \o [i \in 1..Len(decorated) |-> line]]
                IN  Body(w, stmt.body)
          [] stmt.kind = "ClassDef" ->
                LET w == IF StartsWith(stmt.name, <<"T","e","s","t">>) \/ EndsWith(stmt.name, <<"T","e","s","t">>)
                         THEN [tv EXCEPT !.test_decorated_lines =
                                             Append(@, line_index(li, stmt.start))]
                         ELSE tv
                IN  Body(w, stmt.body)
          [] OTHER -> tv

(***************************************************************************)
(* entry_point.rs: calls made under `if __name__ == "__main__"`            *)
(***************************************************************************)
is_name_dunder(expr) == expr.kind = "Name" /\ expr.id = <<"_","_","n","a","m","e","_","_">>

is_main_string(expr) ==
    expr.kind = "Constant" /\ expr.value.type = "Str" /\ expr.value.s = <<"_","_","m","a","i","n","_","_">>

\* The guard test that accepts `__name__` on the left only.
\* C11_EntryPointCallsKeepDefinitionsAlive fails with it.
is_main_guard_name_first(stmt) ==
    /\ stmt.kind = "If"
    /\ stmt.test.kind = "Compare"
    /\ Len(stmt.test.ops) = 1
    /\ Len(stmt.test.comparators) = 1
    /\ is_name_dunder(stmt.test.left)
    /\ is_main_string(stmt.test.comparators[1])

\* The operator of the comparison is not examined.
is_main_guard(stmt) ==
    /\ stmt.kind = "If"
    /\ stmt.test.kind = "Compare"
    /\ Len(stmt.test.ops) = 1
    /\ Len(stmt.test.comparators) = 1
    /\ LET left == stmt.test.left
           right == stmt.test.comparators[1]
       IN  \/ is_name_dunder(left) /\ is_main_string(right)
           \/ is_name_dunder(right) /\ is_main_string(left)

get_call_name(expr) ==
    CASE expr.kind = "Name" -> Some(expr.id)
      [] expr.kind = "Attribute" -> Some(expr.attr)
      [] OTHER -> None

\* The names collect_calls_from_expr inserts into the set.
RECURSIVE collect_calls_from_expr(_)
collect_calls_from_expr(expr) ==
    CASE expr.kind = "Call" ->
            Range(get_call_name(expr.func))
            \cup UNION {collect_calls_from_expr(expr.args[i]) : i \in 1..Len(expr.args)}
      [] expr.kind = "Attribute" -> collect_calls_from_expr(expr.value)
      [] expr.kind = "BinOp" ->
            collect_calls_from_expr(expr.left) \cup collect_calls_from_expr(expr.right)
      [] OTHER -> {}

\* The names collect_function_calls inserts into the set.
RECURSIVE collect_function_calls(_)
collect_function_calls(stmt) ==
    CASE stmt.kind \in {"Expr", "Assign"} -> collect_calls_from_expr(stmt.value)
      [] stmt.kind = "If" ->
            UNION {collect_function_calls(stmt.body[i]) : i \in 1..Len(stmt.body)}
            \cup UNION {collect_function_calls(stmt.orelse[i]) : i \in 1..Len(stmt.orelse)}
      [] OTHER -> {}

detect_entry_point_calls(stmts) ==
    UNION {UNION {collect_function_calls(stmts[i].body[j]) : j \in 1..Len(stmts[i].body)} :
             i \in {k \in 1..Len(stmts) : is_main_guard(stmts[k])}}

(***************************************************************************)
(* rules/secrets.rs: the patterns of hardcoded secrets.  Every pattern is  *)
(* case-insensitive and has the shape                                      *)
(*     keyword \s* = \s* ['"] [class]{min,max} ['"]                        *)
(* and matches anywhere in a line.                                         *)
(***************************************************************************)
Letters == Range(<<"a","b","c","d","e","f","g","h","i","j","k","l","m","n","o","p","q","r","s","t","u","v","w","x","y","z">>) \cup Range(<<"A","B","C","D","E","F","G","H","I","J","K","L","M","N","O","P","Q","R","S","T","U","V","W","X","Y","Z">>)

Digits == Range(<<"0","1","2","3","4","5","6","7","8","9">>)

Whitespace == {" ", "\t", "\r"}

Quotes == {"'", "\""}

SECRET_PATTERNS ==
    << [name |-> <<"A","W","S"," ","A","c","c","e","s","s"," ","K","e","y">>, keywords |-> {<<"a","w","s","_","a","c","c","e","s","s","_","k","e","y","_","i","d">>},
        class |-> Letters \cup Digits, min |-> 20, max |-> Some(20)],
       [name |-> <<"A","W","S"," ","S","e","c","r","e","t"," ","K","e","y">>, keywords |-> {<<"a","w","s","_","s","e","c","r","e","t","_","a","c","c","e","s","s","_","k","e","y">>},
        class |-> Letters \cup Digits \cup {"/", "+", "="}, min |-> 40, max |-> Some(40)],
       [name |-> <<"G","e","n","e","r","i","c"," ","A","P","I"," ","K","e","y">>,
        keywords |-> {<<"a","p","i","_","k","e","y">>, <<"a","p","i","k","e","y">>, <<"s","e","c","r","e","t">>, <<"t","o","k","e","n">>},
        class |-> Letters \cup Digits \cup {"_", "-"}, min |-> 20, max |-> None] >>

\* The first position from `from` on whose character is not in `set`, or
\* Len(line) + 1.
SkipWhile(line, from, set) ==
    Bind({k \in from..Len(line) : line[k] \notin set}, LAMBDA rest :
        IF rest = {} THEN Len(line) + 1
        ELSE CHOOSE k \in rest : \A j \in rest : k <= j)

\* Whether the pattern matches the line with the keyword at position i.  The
\* class holds no quote, so the run before the closing quote is the longest
\* run of class characters.
matches_at(pattern, keyword, line, i) ==
    /\ i + Len(keyword) - 1 <= Len(line)
    /\ to_lowercase(SubSeq(line, i, i + Len(keyword) - 1)) = keyword
    /\ Bind(SkipWhile(line, i + Len(keyword), Whitespace), LAMBDA eq :
          /\ eq <= Len(line)
          /\ line[eq] = "="
          /\ Bind(SkipWhile(line, eq + 1, Whitespace), LAMBDA open :
                /\ open <= Len(line)
                /\ line[open] \in Quotes
                /\ Bind(SkipWhile(line, open + 1, pattern.class), LAMBDA close :
                      /\ close <= Len(line)
                      /\ line[close] \in Quotes
                      /\ close - open - 1 >= pattern.min
                      /\ pattern.max # None => close - open - 1 <= pattern.max[1])))

\* Regex::is_match
is_match(pattern, line) ==
    \E keyword \in pattern.keywords :
        \E i \in 1..Len(line) : matches_at(pattern, keyword, line, i)

\* line.trim().starts_with('#')
is_comment_line(line) ==
    Bind(SkipWhile(line, 1, Whitespace), LAMBDA first :
        first <= Len(line) /\ line[first] = "#")

\* scan_secrets: the findings of the lines that are not comments.
scan_secrets(content, file_path) ==
    Bind(Lines(content), LAMBDA lines :
        FoldFrom(LAMBDA findings, line_idx :
                     Bind(lines[line_idx + 1], LAMBDA line :
                         IF is_comment_line(line) THEN findings
                         ELSE Bind(SelectSeq(SECRET_PATTERNS,
                                             LAMBDA pattern : is_match(pattern, line)),
                                   LAMBDA found :
                                  findings \o
                                  [k \in 1..Len(found) |->
                                      [message |-> <<"F","o","u","n","d"," ","p","o","t","e","n","t","i","a","l"," ">> \o found[k].name,
                                       rule_id |-> <<"S","K","Y","-","S","1","0","1">>,
                                       file |-> file_path,
                                       line |-> line_idx + 1,
                                       severity |-> <<"H","I","G","H">>]])),
                 <<>>, [k \in 1..Len(lines) |-> k - 1], 1))

(***************************************************************************)
(* rules/danger.rs: DangerVisitor.  A statement of the modules is written  *)
(* on one line, so every call of a statement is on the line of the         *)
(* statement: `start` stands for call.range.start().                       *)
(***************************************************************************)
DangerVisitor_new(file_path) == [findings |-> <<>>, file_path |-> file_path]

DangerVisitor_add_finding(dv, msg, rule_id, line) ==
    [dv EXCEPT !.findings =
        Append(@, [message |-> msg, rule_id |-> rule_id, file |-> dv.file_path,
                   line |-> line, severity |-> <<"C","R","I","T","I","C","A","L">>])]

DangerVisitor_get_call_name(func) ==
    CASE func.kind = "Name" -> Some(func.id)
      [] func.kind = "Attribute" ->
            IF func.value.kind = "Name"
            THEN Some(func.value.id \o <<".">> \o func.attr) ELSE None
      [] OTHER -> None

\* The keywords of a call are [arg, value]; none is a `**` argument.
check_call(dv, li, call, start) ==
    Bind(DangerVisitor_get_call_name(call.func), LAMBDA name :
        IF name = None THEN dv
        ELSE Bind(line_index(li, start), LAMBDA line :
             Bind(IF name[1] \in {<<"e","v","a","l">>, <<"e","x","e","c">>}
                  THEN DangerVisitor_add_finding(dv, <<"A","v","o","i","d"," ","u","s","i","n","g"," ","e","v","a","l","/","e","x","e","c">>,
                                                 <<"S","K","Y","-","D","0","0","1">>, line)
                  ELSE dv,
                  LAMBDA w :
                 IF name[1] \in {<<"s","u","b","p","r","o","c","e","s","s",".","c","a","l","l">>, <<"s","u","b","p","r","o","c","e","s","s",".","P","o","p","e","n">>, <<"s","u","b","p","r","o","c","e","s","s",".","r","u","n">>}
                 THEN Fold(LAMBDA x, keyword :
                               IF /\ keyword.arg = <<"s","h","e","l","l">>
                                  /\ keyword.value.kind = "Constant"
                                  /\ keyword.value.value = [type |-> "Bool", b |-> TRUE]
                               THEN DangerVisitor_add_finding(
                                        x, <<"s","u","b","p","r","o","c","e","s","s"," ","w","i","t","h"," ","s","h","e","l","l","=","T","r","u","e">>, <<"S","K","Y","-","D","0","0","2">>, line)
                               ELSE x,
                           w, call.keywords)
                 ELSE w)))

RECURSIVE DangerVisitor_visit_expr(_, _, _, _)
DangerVisitor_visit_expr(dv, li, expr, start) ==
    IF expr.kind = "Call"
    THEN Bind(check_call(dv, li, expr, start), LAMBDA w1 :
         Bind(DangerVisitor_visit_expr(w1, li, expr.func, start), LAMBDA w2 :
             Fold(LAMBDA x, arg : DangerVisitor_visit_expr(x, li, arg, start),
                  w2, expr.args)))
    ELSE dv

RECURSIVE DangerVisitor_visit_stmt(_, _, _)
DangerVisitor_visit_stmt(dv, li, stmt) ==
    CASE stmt.kind = "Expr" -> DangerVisitor_visit_expr(dv, li, stmt.value, stmt.start)
      [] stmt.kind \in {"FunctionDef", "ClassDef"} ->
            Fold(LAMBDA x, s : DangerVisitor_visit_stmt(x, li, s), dv, stmt.body)
      [] OTHER -> dv

(***************************************************************************)
(* rules/quality.rs: QualityVisitor                                        *)
(***************************************************************************)
QualityVisitor_new(file_path) ==
    [findings |-> <<>>, file_path |-> file_path, current_depth |-> 0, max_depth |-> 5]

\* usize to String
RECURSIVE to_string(_)
to_string(n) ==
    IF n < 10 THEN <<<<"0","1","2","3","4","5","6","7","8","9">>[n + 1]>>
    ELSE to_string(n \div 10) \o <<<<"0","1","2","3","4","5","6","7","8","9">>[(n % 10) + 1]>>

QualityVisitor_add_finding(qv, msg, rule_id, line) ==
    IF /\ qv.findings # <<>>
       /\ qv.findings[Len(qv.findings)].line = line
       /\ qv.findings[Len(qv.findings)].rule_id = rule_id
    THEN qv
    ELSE [qv EXCEPT !.findings =
             Append(@, [message |-> msg, rule_id |-> rule_id, file |-> qv.file_path,
                        line |-> line, severity |-> <<"L","O","W">>])]

check_depth(qv, li, range_start) ==
    IF qv.current_depth > qv.max_depth
    THEN QualityVisitor_add_finding(
             qv,
             <<"D","e","e","p","l","y"," ","n","e","s","t","e","d"," ","c","o","d","e"," ","(","d","e","p","t","h"," ">> \o to_string(qv.current_depth) \o <<")">>,
             <<"S","K","Y","-","Q","0","0","1">>, line_index(li, range_start))
    ELSE qv

RECURSIVE QualityVisitor_visit_stmt(_, _, _)
QualityVisitor_visit_stmt(qv, li, stmt) ==
    IF stmt.kind \in {"FunctionDef", "AsyncFunctionDef", "ClassDef", "If"}
    THEN Bind(check_depth([qv EXCEPT !.current_depth = @ + 1], li, stmt.start),
              LAMBDA w1 :
         Bind(Fold(LAMBDA x, s : QualityVisitor_visit_stmt(x, li, s), w1, stmt.body),
              LAMBDA w2 :
         Bind(IF stmt.kind = "If"
              THEN Fold(LAMBDA x, s : QualityVisitor_visit_stmt(x, li, s), w2, stmt.orelse)
              ELSE w2,
              LAMBDA w3 : [w3 EXCEPT !.current_depth = @ - 1])))
    ELSE qv

(***************************************************************************)
(* analyzer.rs: the penalty pass                                           *)
(***************************************************************************)
\* u8::wrapping_sub, which the penalty pass does not use.
\* C6_ReportedFieldsInRange fails with it.
wrapping_sub(a, b) == (a - b) % 256

\* u8::saturating_sub
saturating_sub(a, b) == IF a >= b THEN a - b ELSE 0

\* A penalty pass that suppresses a definition on a pragma line by giving it a
\* reference.  C27_OnlyConfidenceThenReferencesChange fails with it.
apply_penalties_marking_used(def, fv, tv, ignored_lines) ==
    IF def.line \in ignored_lines THEN [def EXCEPT !.references = 1, !.is_exported = TRUE]
    ELSE IF tv.is_test_file \/ def.line \in Range(tv.test_decorated_lines)
    THEN [def EXCEPT !.confidence = 0]
    ELSE
      LET framework == IF def.line \in fv.framework_decorated_lines
                       THEN [def EXCEPT !.confidence = 20] ELSE def
          private == IF /\ StartsWith(def.simple_name, <<"_">>)
                        /\ ~StartsWith(def.simple_name, <<"_","_">>)
                     THEN [framework EXCEPT !.confidence = saturating_sub(@, 40)]
                     ELSE framework
      IN  IF is_dunder(def.simple_name) THEN [private EXCEPT !.confidence = 0]
          ELSE private

\* The penalty pass without its last rule (dunder names).
\* C4_DunderHasNoConfidence fails with it.
apply_penalties_without_dunder_rule(def, fv, tv, ignored_lines) ==
    IF def.line \in ignored_lines THEN [def EXCEPT !.confidence = 0]
    ELSE IF tv.is_test_file \/ def.line \in Range(tv.test_decorated_lines)
    THEN [def EXCEPT !.confidence = 0]
    ELSE
      LET framework == IF def.line \in fv.framework_decorated_lines
                       THEN [def EXCEPT !.confidence = 20] ELSE def
      IN  IF /\ StartsWith(def.simple_name, <<"_">>)
             /\ ~StartsWith(def.simple_name, <<"_","_">>)
          THEN [framework EXCEPT !.confidence = saturating_sub(@, 40)]
          ELSE framework

\* The penalty pass without its second rule (test files and test lines).
\* C5_TestCodeHasNoConfidence fails with it.
apply_penalties_without_test_rule(def, fv, tv, ignored_lines) ==
    IF def.line \in ignored_lines THEN [def EXCEPT !.confidence = 0]
    ELSE
      LET framework == IF def.line \in fv.framework_decorated_lines
                       THEN [def EXCEPT !.confidence = 20] ELSE def
          private == IF /\ StartsWith(def.simple_name, <<"_">>)
                        /\ ~StartsWith(def.simple_name, <<"_","_">>)
                     THEN [framework EXCEPT !.confidence = saturating_sub(@, 40)]
                     ELSE framework
      IN  IF is_dunder(def.simple_name) THEN [private EXCEPT !.confidence = 0]
          ELSE private

\* The penalty pass with the private penalty of Definition::apply_penalties
\* (30), which analyze does not call.  C8_PrivatePenalty fails with it.
apply_penalties_private_30(def, fv, tv, ignored_lines) ==
    IF def.line \in ignored_lines THEN [def EXCEPT !.confidence = 0]
    ELSE IF tv.is_test_file \/ def.line \in Range(tv.test_decorated_lines)
    THEN [def EXCEPT !.confidence = 0]
    ELSE
      LET framework == IF def.line \in fv.framework_decorated_lines
                       THEN [def EXCEPT !.confidence = 20] ELSE def
          private == IF /\ StartsWith(def.simple_name, <<"_">>)
                        /\ ~StartsWith(def.simple_name, <<"_","_">>)
                     THEN [framework EXCEPT !.confidence = saturating_sub(@, 30)]
                     ELSE framework
      IN  IF is_dunder(def.simple_name) THEN [private EXCEPT !.confidence = 0]
          ELSE private

apply_penalties(def, fv, tv, ignored_lines) ==
    IF def.line \in ignored_lines THEN [def EXCEPT !.confidence = 0]
    ELSE IF tv.is_test_file \/ def.line \in Range(tv.test_decorated_lines)
    THEN [def EXCEPT !.confidence = 0]
    ELSE
      LET framework == IF def.line \in fv.framework_decorated_lines
                       THEN [def EXCEPT !.confidence = 20] ELSE def
          private == IF /\ StartsWith(def.simple_name, <<"_">>)
                        /\ ~StartsWith(def.simple_name, <<"_","_">>)
                     THEN [framework EXCEPT !.confidence = saturating_sub(@, 40)]
                     ELSE framework
      IN  IF is_dunder(def.simple_name) THEN [private EXCEPT !.confidence = 0]
          ELSE private

(***************************************************************************)
(* The files under the analyzed root: each path with the module it holds.  *)
(* The modules are those of the repository's tests, extended so that each  *)
(* penalty rule meets each kind of name.                                   *)
(***************************************************************************)
PragmaComment == <<" "," ","#"," ","p","r","a","g","m","a",":"," ","n","o"," ","s","k","y","l","o","s">>

Accented == <<" "," ","#"," ","c","a","f">> \o <<"U+00E9">>

Function(name, comment) == FunctionDef(name, <<>>, <<>>, <<Pass>>, comment)

Method(name, comment) == FunctionDef(name, <<<<"s","e","l","f">>>>, <<>>, <<Pass>>, comment)

Decorated(decorator, name, comment) ==
    FunctionDef(name, <<>>, <<decorator>>, <<Pass>>, comment)

\* tests/analyzer_test.rs, test_analyze_basic
MainModule ==
    << FunctionDef(<<"u","s","e","d","_","f","u","n","c","t","i","o","n">>, <<>>, <<>>, <<Return(Some(Str(<<"u","s","e","d">>)))>>, <<>>),
       FunctionDef(<<"u","n","u","s","e","d","_","f","u","n","c","t","i","o","n">>, <<>>, <<>>, <<Return(Some(Str(<<"u","n","u","s","e","d">>)))>>, <<>>),
       ClassDef(<<"U","s","e","d","C","l","a","s","s">>, <<>>, <<Method(<<"m","e","t","h","o","d">>, <<>>)>>, <<>>),
       ClassDef(<<"U","n","u","s","e","d","C","l","a","s","s">>, <<>>, <<Method(<<"m","e","t","h","o","d">>, <<>>)>>, <<>>),
       Assign(<<NameStore(<<"r","e","s","u","l","t">>)>>, Call(Name(<<"u","s","e","d","_","f","u","n","c","t","i","o","n">>), <<>>), <<>>),
       Assign(<<NameStore(<<"i","n","s","t","a","n","c","e">>)>>, Call(Name(<<"U","s","e","d","C","l","a","s","s">>), <<>>), <<>>) >>

\* tests/pragma_test.rs, test_analyze_respects_ignore_pragmas
DemoModule ==
    << Function(<<"u","s","e","d">>, Accented),
       Function(<<"u","n","u","s","e","d","_","n","o","_","i","g","n","o","r","e">>, <<>>),
       Function(<<"u","n","u","s","e","d","_","i","g","n","o","r","e">>, PragmaComment),
       ClassDef(<<"I","g","n","o","r","e","d">>, <<>>,
                << Method(<<"_","_","s","t","r","_","_">>, PragmaComment), Method(<<"h","e","l","p","e","r">>, <<>>) >>,
                PragmaComment),
       ExprStmt(Call(Name(<<"u","s","e","d">>), <<>>), <<>>) >>

\* tests/analyzer_test.rs, test_confidence_threshold_filtering, and
\* tests/framework_test.rs
AppModule ==
    << ImportFrom(Some(<<"f","l","a","s","k">>), <<Alias(<<"F","l","a","s","k">>, None)>>, <<>>),
       Function(<<"r","e","g","u","l","a","r","_","u","n","u","s","e","d">>, <<>>),
       Function(<<"_","p","r","i","v","a","t","e","_","u","n","u","s","e","d">>, <<>>),
       Function(<<"_","_","m","a","n","g","l","e","d">>, <<>>),
       Decorated(Call(Attribute(Name(<<"a","p","p">>), <<"r","o","u","t","e">>), <<Str(<<"/","a","p","i","/","u","s","e","r","s">>)>>),
                 <<"g","e","t","_","u","s","e","r","s">>, <<>>),
       Decorated(Attribute(Name(<<"a","p","p">>), <<"r","o","u","t","e">>), <<"_","h","i","d","d","e","n">>, <<>>),
       Decorated(Attribute(Name(<<"a","p","p">>), <<"p","o","s","t">>), <<"i","g","n","o","r","e","d","_","r","o","u","t","e">>, PragmaComment),
       Decorated(Attribute(Name(<<"p","y","t","e","s","t">>), <<"f","i","x","t","u","r","e">>), <<"d","b">>, <<>>),
       ClassDef(<<"W","o","r","k","e","r">>, <<>>,
                << FunctionDef(<<"_","_","c","a","l","l","_","_">>, <<<<"s","e","l","f">>>>, <<Attribute(Name(<<"a","p","p">>), <<"t","a","s","k">>)>>,
                               <<Pass>>, <<>>) >>,
                <<>>),
       ClassDef(<<"U","s","e","r","V","i","e","w">>, <<Name(<<"V","i","e","w">>)>>, <<Pass>>, <<>>),
       ClassDef(<<"T","e","s","t","S","u","i","t","e">>, <<>>, <<Method(<<"t","e","s","t","_","o","n","e">>, <<>>)>>, <<>>) >>

\* tests/analyzer_test.rs, test_mark_exports_in_init, with the kind of
\* assignment of tests/visitor_test.rs, test_all_detection: it lists a function
\* of this file and one of proj/pkg/run.py.
InitModule ==
    << Function(<<"p","u","b","l","i","c","_","f","u","n","c","t","i","o","n">>, <<>>),
       Function(<<"_","p","r","i","v","a","t","e","_","f","u","n","c","t","i","o","n">>, <<>>),
       ClassDef(<<"E","x","p","o","r","t","e","d">>, <<>>, <<Method(<<"_","_","i","n","i","t","_","_">>, <<>>)>>, <<>>),
       Assign(<<NameStore(<<"_","_","a","l","l","_","_">>)>>, List(<<Str(<<"_","p","r","i","v","a","t","e","_","f","u","n","c","t","i","o","n">>), Str(<<"s","p","a","r","e">>)>>),
              <<>>) >>

\* tests/analyzer_test.rs, test_heuristics_auto_called_methods, and the module
\* of test_entry_point_detection in entry_point.rs
CliModule ==
    << ClassDef(<<"M","y","C","l","a","s","s">>, <<>>,
                << Method(<<"_","_","i","n","i","t","_","_">>, <<>>),
                   FunctionDef(<<"_","_","s","t","r","_","_">>, <<<<"s","e","l","f">>>>, <<>>,
                               <<Return(Some(Str(<<"s","t","r","i","n","g">>)))>>, <<>>) >>,
                <<>>),
       Assign(<<NameStore(<<"i","n","s","t","a","n","c","e">>)>>, Call(Name(<<"M","y","C","l","a","s","s">>), <<>>), <<>>),
       Function(<<"m","a","i","n">>, <<>>),
       Function(<<"v","i","s","i","t","_","N","o","d","e">>, <<>>),
       Function(<<"o","n","_","c","l","i","c","k">>, <<>>),
       Function(<<"t","e","s","t","_","t","h","i","n","g">>, <<>>),
       Function(<<"m","y","_","f","u","n","c","t","i","o","n">>, <<>>),
       If(Compare(Name(<<"_","_","n","a","m","e","_","_">>), <<<<"=","=">>>>, <<Str(<<"_","_","m","a","i","n","_","_">>)>>),
          << ExprStmt(Call(Name(<<"m","y","_","f","u","n","c","t","i","o","n">>), <<>>), <<>>),
             ExprStmt(Call(Name(<<"a","n","o","t","h","e","r","_","c","a","l","l">>), <<>>), <<>>) >>,
          <<>>) >>

\* A module that uses the definitions of the other files.
UserModule ==
    << Import(<<Alias(<<"o","s">>, None), Alias(<<"s","y","s">>, Some(<<"s","y","s","t","e","m">>))>>, <<>>),
       ImportFrom(Some(<<"m","a","i","n">>), <<Alias(<<"u","n","u","s","e","d","_","f","u","n","c","t","i","o","n">>, None)>>, <<>>),
       ImportFrom(Some(<<"_","_","f","u","t","u","r","e","_","_">>), <<Alias(<<"a","n","n","o","t","a","t","i","o","n","s">>, None)>>, <<>>),
       Function(<<"_","h","e","l","p","e","r">>, <<>>),
       ExprStmt(Call(Attribute(Name(<<"o","s">>), <<"g","e","t","c","w","d">>), <<>>), <<>>),
       ExprStmt(Attribute(Name(<<"m","a","i","n">>), <<"U","n","u","s","e","d","C","l","a","s","s">>), <<>>),
       ExprStmt(Call(Name(<<"U","n","u","s","e","d","C","l","a","s","s">>), <<>>), <<>>),
       ExprStmt(Call(Name(<<"g","e","t","a","t","t","r">>), <<Name(<<"a","p","p">>), Str(<<"r","e","g","u","l","a","r","_","u","n","u","s","e","d">>)>>), <<>>),
       ExprStmt(Str(<<"d","e","m","o",".","u","n","u","s","e","d","_","n","o","_","i","g","n","o","r","e">>), <<>>) >>

\* The modules of test_reversed_main_guard in entry_point.rs and of
\* tests/visitor_test.rs, test_inheritance_detection, with a function that has
\* the name of one cli.py calls and a class whose base is defined in app.py.
RunModule ==
    << Function(<<"f","u","n","c">>, <<>>),
       Function(<<"m","y","_","f","u","n","c","t","i","o","n">>, <<>>),
       ClassDef(<<"P","a","r","e","n","t">>, <<>>, <<Pass>>, <<>>),
       ClassDef(<<"C","h","i","l","d">>, <<Name(<<"P","a","r","e","n","t">>)>>, <<Pass>>, <<>>),
       ClassDef(<<"H","a","n","d","l","e","r">>, <<Name(<<"W","o","r","k","e","r">>)>>, <<Pass>>, <<>>),
       If(Compare(Str(<<"_","_","m","a","i","n","_","_">>), <<<<"=","=">>>>, <<Name(<<"_","_","n","a","m","e","_","_">>)>>),
          << ExprStmt(Call(Name(<<"f","u","n","c">>), <<>>), <<>>) >>,
          <<>>) >>

\* A second module named run, in a package: it defines func twice, and
\* nothing in it uses func; its class uses two of its own methods through
\* self and cls, as the module of examples/debug_visitor.rs does.
PkgRunModule ==
    << Function(<<"f","u","n","c">>, <<>>),
       Function(<<"s","p","a","r","e">>, <<>>),
       Function(<<"f","u","n","c">>, <<>>),
       ClassDef(<<"S","e","r","v","i","c","e">>, <<>>,
                << FunctionDef(<<"s","t","a","r","t">>, <<<<"s","e","l","f">>>>, <<>>,
                               << ExprStmt(Call(Attribute(Name(<<"s","e","l","f">>), <<"h","e","l","p","e","r">>), <<>>),
                                           <<>>),
                                  Return(Some(Attribute(Name(<<"c","l","s">>), <<"b","u","i","l","d">>))) >>,
                               <<>>),
                   Method(<<"h","e","l","p","e","r">>, <<>>),
                   Method(<<"b","u","i","l","d">>, <<>>),
                   Method(<<"i","d","l","e">>, <<>>) >>,
                <<>>) >>

Paths ==
    {<<"p","r","o","j","/","m","a","i","n",".","p","y">>, <<"p","r","o","j","/","d","e","m","o",".","p","y">>, <<"p","r","o","j","/","a","p","p",".","p","y">>, <<"p","r","o","j","/","t","e","s","t","s","/","a","p","p",".","p","y">>,
     <<"p","r","o","j","/","p","k","g","/","_","_","i","n","i","t","_","_",".","p","y">>, <<"p","r","o","j","/","c","l","i",".","p","y">>, <<"p","r","o","j","/","u","s","e","r",".","p","y">>, <<"p","r","o","j","/","r","u","n",".","p","y">>,
     <<"p","r","o","j","/","p","k","g","/","r","u","n",".","p","y">>}

\* tests/security_test.rs: an assignment for each pattern of secrets.rs, the
\* assignment of test_ignore_directive_suppresses_matches, which ends with the
\* pragma, and one that no pattern matches.
SettingsModule ==
    << Assign(<<NameStore(<<"A","P","I","_","K","E","Y">>)>>, Str(<<"a","b","c","d","e","f","g","h","i","j","0","1","2","3","4","5","6","7","8","9">>), <<>>),
       Assign(<<NameStore(<<"G","I","T","H","U","B","_","T","O","K","E","N">>)>>,
              Str(<<"g","h","p","_","a","a","a","a","a","a","a","a","a","a","a","a","a","a","a","a","a","a","a","a","a","a","a","a","a","a","a","a","a","a","a","a","a","a","a","a">>), PragmaComment),
       Assign(<<NameStore(<<"a","w","s","_","a","c","c","e","s","s","_","k","e","y","_","i","d">>)>>, Str(<<"A","K","I","A","I","O","S","F","O","D","N","N","7","E","X","A","M","P","L","E">>), <<>>),
       Assign(<<NameStore(<<"A","W","S","_","S","E","C","R","E","T","_","A","C","C","E","S","S","_","K","E","Y">>)>>,
              Str(<<"w","J","a","l","r","X","U","t","n","F","E","M","I","/","K","7","M","D","E","N","G","/","b","P","x","R","f","i","C","Y","E","X","A","M","P","L","E","K","E","Y">>), <<>>),
       Assign(<<NameStore(<<"p","a","s","s","w","o","r","d">>)>>, Str(<<"s","h","o","r","t">>), <<>>),
       Function(<<"l","o","a","d","_","s","e","t","t","i","n","g","s">>, <<>>) >>

\* tests/security_test.rs and tests/quality_test.rs: calls of eval, exec and
\* subprocess.run as statements, as the value of an assignment, as an argument
\* and in a method, and statements nested six deep.
TasksModule ==
    << ClassDef(<<"R","u","n","n","e","r">>, <<>>,
                << FunctionDef(<<"e","x","e","c","u","t","e">>, <<<<"s","e","l","f">>>>, <<>>,
                       << ExprStmt(Call(Name(<<"e","x","e","c">>), <<Name(<<"c","o","d","e">>)>>), <<>>),
                          If(Name(<<"a">>),
                             << If(Name(<<"b">>),
                                   << If(Name(<<"c">>),
                                         << If(Name(<<"d">>), <<Pass>>, <<>>),
                                            If(Name(<<"e">>), <<Pass>>, <<Pass>>) >>,
                                         <<>>) >>,
                                   <<>>) >>,
                             <<>>) >>,
                       <<>>) >>,
                <<>>),
       Import(<<Alias(<<"s","u","b","p","r","o","c","e","s","s">>, None)>>, <<>>),
       Assign(<<NameStore(<<"t","o","k","e","n">>)>>, Str(<<"0","1","2","3","4","5","6","7","8","9","-","a","b","c","d","e","f","g","h","i","j","_">>), <<>>),
       Function(<<"c","l","e","a","n","u","p">>, <<>>),
       ExprStmt(Call(Name(<<"e","v","a","l">>), <<Name(<<"u","s","e","r","_","i","n","p","u","t">>)>>), <<>>),
       Assign(<<NameStore(<<"r","e","s","u","l","t">>)>>, Call(Name(<<"e","v","a","l">>), <<Name(<<"u","s","e","r","_","i","n","p","u","t">>)>>),
              <<>>),
       ExprStmt(Call(Name(<<"p","r","i","n","t">>), <<Call(Name(<<"e","x","e","c">>), <<Name(<<"c","o","d","e">>)>>)>>), <<>>),
       ExprStmt(CallKw(Attribute(Name(<<"s","u","b","p","r","o","c","e","s","s">>), <<"r","u","n">>), <<Str(<<"e","c","h","o"," ","h","i">>)>>,
                       <<[arg |-> <<"s","h","e","l","l">>, value |-> Bool(TRUE)]>>), <<>>),
       ExprStmt(CallKw(Attribute(Name(<<"s","u","b","p","r","o","c","e","s","s">>), <<"r","u","n">>), <<Str(<<"e","c","h","o"," ","h","i">>)>>,
                       <<[arg |-> <<"s","h","e","l","l">>, value |-> Bool(FALSE)]>>), <<>>) >>

\* A file whose last line is not a statement.
BrokenModule ==
    << Function(<<"o","r","p","h","a","n">>, <<>>),
       Assign(<<NameStore(<<"S","E","C","R","E","T">>)>>, Str(<<"a","b","c","d","e","f","g","h","i","j","0","1","2","3","4","5","6","7","8","9","a","b","c","d">>), <<>>),
       ExprStmt(Call(Name(<<"e","v","a","l">>), <<Name(<<"d","a","t","a">>)>>), <<>>) >>

\* The files that hold what the rules of secrets.rs, danger.rs and quality.rs
\* look for, a file with a syntax error, a file that is not UTF-8 and a file
\* that is not a .py file.
RulePaths ==
    {<<"p","r","o","j","/","s","e","t","t","i","n","g","s",".","p","y">>, <<"p","r","o","j","/","t","a","s","k","s",".","p","y">>, <<"p","r","o","j","/","b","r","o","k","e","n",".","p","y">>, <<"p","r","o","j","/","b","i","n","a","r","y",".","p","y">>,
     <<"p","r","o","j","/","k","e","y","s",".","t","x","t">>}

AllPaths == Paths \cup RulePaths

\* The files fs::read_to_string fails on.
Unreadable == {<<"p","r","o","j","/","b","i","n","a","r","y",".","p","y">>}

\* The files rustpython_parser::parse fails on.
Broken == {<<"p","r","o","j","/","b","r","o","k","e","n",".","p","y">>}

\* The comment lines a file starts with.
Header(path) ==
    IF path = <<"p","r","o","j","/","s","e","t","t","i","n","g","s",".","p","y">>
    THEN <<"#"," ","t","o","k","e","n"," ","="," ","'","a","b","c","d","e","f","g","h","i","j","0","1","2","3","4","5","6","7","8","9","'","\n"," "," ","#"," ","S","E","C","R","E","T"," ","="," ","'","a","b","c","d","e","f","g","h","i","j","0","1","2","3","4","5","6","7","8","9","'","\n">>
    ELSE <<>>

\* The text after the statements of a file.
Trailer(path) == IF path \in Broken THEN <<"d","e","f"," ","b","r","o","k","e","n","(",":","\n">> ELSE <<>>

\* The module stored at a path.
Disk(path) ==
    CASE path = <<"p","r","o","j","/","m","a","i","n",".","p","y">> -> MainModule
      [] path = <<"p","r","o","j","/","d","e","m","o",".","p","y">> -> DemoModule
      [] path \in {<<"p","r","o","j","/","a","p","p",".","p","y">>, <<"p","r","o","j","/","t","e","s","t","s","/","a","p","p",".","p","y">>} -> AppModule
      [] path = <<"p","r","o","j","/","p","k","g","/","_","_","i","n","i","t","_","_",".","p","y">> -> InitModule
      [] path = <<"p","r","o","j","/","c","l","i",".","p","y">> -> CliModule
      [] path = <<"p","r","o","j","/","u","s","e","r",".","p","y">> -> UserModule
      [] path = <<"p","r","o","j","/","r","u","n",".","p","y">> -> RunModule
      [] path = <<"p","r","o","j","/","p","k","g","/","r","u","n",".","p","y">> -> PkgRunModule
      [] path \in {<<"p","r","o","j","/","s","e","t","t","i","n","g","s",".","p","y">>, <<"p","r","o","j","/","b","i","n","a","r","y",".","p","y">>, <<"p","r","o","j","/","k","e","y","s",".","t","x","t">>} ->
            SettingsModule
      [] path = <<"p","r","o","j","/","t","a","s","k","s",".","p","y">> -> TasksModule
      [] path = <<"p","r","o","j","/","b","r","o","k","e","n",".","p","y">> -> BrokenModule

\* Every file's text and the statements the text holds, with their offsets.
Parsed ==
    [path \in AllPaths |->
        Bind(Header(path), LAMBDA header :
        Bind(Emit(Disk(path), 0, Bytes(header)), LAMBDA emitted :
            [text |-> header \o emitted.text \o Trailer(path), ast |-> emitted.ast]))]

\* fs::read_to_string(path).unwrap_or_default()
read_to_string(path) == IF path \in Unreadable THEN <<>> ELSE Parsed[path].text

\* rustpython_parser::parse: whether it returns Err, and the statements of the
\* module.  For a file of Broken these are the statements before the syntax
\* error, which the parser does not return.
parse_is_err(path) == path \in Broken

parse(path) == IF path \in Unreadable THEN <<>> ELSE Parsed[path].ast

\* The values --confidence is given in the tests, and the boundary values.
Thresholds == {0, 20, 60, 80, 100}

(***************************************************************************)
(* analyzer.rs: Skylos::analyze                                            *)
(***************************************************************************)
VARIABLES
    confidence_threshold, \* Skylos.confidence_threshold
    enable_secrets,       \* Skylos.enable_secrets
    enable_danger,        \* Skylos.enable_danger
    enable_quality,       \* Skylos.enable_quality
    root,                 \* the path given to analyze
    tree,                 \* the paths of the files under the directory proj
    pc,                   \* where analyze is: "walk", "workers" or "done"
    files,                \* the .py files, in the order WalkDir found them
    results,              \* per file: None, or Some(the worker's result)
    finished,             \* the indexes of the files, in the order the workers ended
    ref_counts,           \* how many references there are to each name
    aggregated,           \* all definitions, with the reference count joined
    result,               \* the AnalysisResult
    module_body,          \* the module.body given to detect_entry_point_calls
    entry_point_calls,    \* None, or Some(the set detect_entry_point_calls returned)
    li_source,            \* the source given to LineIndex::new
    li_line_starts,       \* None, or Some(LineIndex.line_starts)
    li_offset,            \* the offset given to the last call of line_index
    li_line,              \* None, or Some(the line that call returned)
    unit_path,            \* the path of a file whose statements are visited
    unit_body,            \* the statements of that file, as written
    unit_visitors         \* None, or Some(the three visitors after the traversal)

\* The Skylos a call of analyze is made on, and its argument.
config_vars ==
    <<confidence_threshold, enable_secrets, enable_danger, enable_quality, root, tree>>

\* The state of a call of Skylos::analyze.
analyze_vars ==
    <<config_vars, pc, files, results, finished, ref_counts, aggregated, result>>

\* The state of a call of detect_entry_point_calls.
entry_point_vars == <<module_body, entry_point_calls>>

\* A LineIndex and the last call of its line_index.
line_index_vars == <<li_source, li_line_starts, li_offset, li_line>>

\* The visitors of one file.
visitor_vars == <<unit_path, unit_body, unit_visitors>>

vars == <<analyze_vars, entry_point_vars, line_index_vars, visitor_vars>>

\* No file is being visited on its own.
NoVisit ==
    /\ unit_path = <<>>
    /\ unit_body = <<>>
    /\ unit_visitors = None

\* No LineIndex has been built.
NoLineIndex ==
    /\ li_source = <<>>
    /\ li_line_starts = None
    /\ li_offset = 0
    /\ li_line = None

\* All the orders in which the elements of a set can be enumerated.
RECURSIVE Orders(_)
Orders(S) ==
    IF S = {} THEN {<<>>}
    ELSE UNION {{<<e>> \o rest : rest \in Orders(S \ {e})} : e \in S}

\* The visitors of a worker after `for stmt in &module.body`: each statement is
\* given to the framework visitor, the test visitor and the main visitor.
visit_statements(path, source, stmts) ==
    Bind(LineIndex_new(source), LAMBDA li :
        Fold(LAMBDA w, stmt :
                 [fv |-> FrameworkAwareVisitor_visit_stmt(w.fv, li, stmt),
                  tv |-> TestAwareVisitor_visit_stmt(w.tv, li, stmt),
                  v |-> SkylosVisitor_visit_stmt(w.v, li, stmt)],
             [fv |-> FrameworkAwareVisitor_new,
              tv |-> TestAwareVisitor_new(path),
              v |-> SkylosVisitor_new(path, FileStem(path))],
             stmts))

\* The visitors of the worker of a file.
visit_module(path) == visit_statements(path, read_to_string(path), parse(path))

\* The visitors of every file after the traversal.
Visited == [path \in AllPaths |-> visit_module(path)]

\* The pragma lines of every file.
IgnoredLines == [path \in AllPaths |-> get_ignored_lines(read_to_string(path))]

\* The secret findings of every file.
Secrets == [path \in AllPaths |-> scan_secrets(read_to_string(path), path)]

\* The findings of a DangerVisitor that has visited every statement of a file.
Danger ==
    [path \in AllPaths |->
        Bind(LineIndex_new(read_to_string(path)), LAMBDA li :
            Fold(LAMBDA dv, stmt : DangerVisitor_visit_stmt(dv, li, stmt),
                 DangerVisitor_new(path), parse(path)).findings)]

\* The findings of a QualityVisitor that has visited every statement of a file.
Quality ==
    [path \in AllPaths |->
        Bind(LineIndex_new(read_to_string(path)), LAMBDA li :
            Fold(LAMBDA qv, stmt : QualityVisitor_visit_stmt(qv, li, stmt),
                 QualityVisitor_new(path), parse(path)).findings)]

\* The worker that visits the statements of a file whose parse failed.
\* C16_UnusableFileContributesNothing fails with it.
worker_ignoring_parse_error(self, path, entry_calls) ==
    Bind(FileStem(path), LAMBDA module_name :
    Bind(Visited[path], LAMBDA visited :
    Bind(Fold(LAMBDA v, call_name :
                  IF module_name # <<>>
                  THEN add_ref(add_ref(v, call_name), module_name \o <<".">> \o call_name)
                  ELSE add_ref(v, call_name),
              visited.v, entry_calls),
         LAMBDA visitor :
        [definitions |->
            [i \in 1..Len(visitor.definitions) |->
                apply_penalties(visitor.definitions[i], visited.fv, visited.tv,
                                IgnoredLines[path])],
         references |-> visitor.references,
         secrets |-> IF self.enable_secrets THEN Secrets[path] ELSE <<>>,
         danger |-> IF self.enable_danger THEN Danger[path] ELSE <<>>,
         quality |-> IF self.enable_quality THEN Quality[path] ELSE <<>>])))

\* The body of the closure a worker runs on one file; entry_calls is the order
\* in which the HashSet of entry-point callees is iterated.
worker(self, path, entry_calls) ==
    Bind(FileStem(path), LAMBDA module_name :
    Bind(IF parse_is_err(path)
         THEN [fv |-> FrameworkAwareVisitor_new,
               tv |-> TestAwareVisitor_new(path),
               v |-> SkylosVisitor_new(path, module_name)]
         ELSE Visited[path],
         LAMBDA visited :
    Bind(IF parse_is_err(path) THEN visited.v
         ELSE Fold(LAMBDA v, call_name :
                       IF module_name # <<>>
                       THEN add_ref(add_ref(v, call_name),
                                    module_name \o <<".">> \o call_name)
                       ELSE add_ref(v, call_name),
                   visited.v, entry_calls),
         LAMBDA visitor :
        [definitions |->
            [i \in 1..Len(visitor.definitions) |->
                apply_penalties(visitor.definitions[i], visited.fv, visited.tv,
                                IgnoredLines[path])],
         references |-> visitor.references,
         secrets |-> IF self.enable_secrets THEN Secrets[path] ELSE <<>>,
         danger |-> IF self.enable_danger /\ ~parse_is_err(path)
                    THEN Danger[path] ELSE <<>>,
         quality |-> IF self.enable_quality /\ ~parse_is_err(path)
                     THEN Quality[path] ELSE <<>>])))

\* The orders in which `for call_name in &entry_point_calls` can iterate the
\* HashSet of each file.
EntryPointCalls == [path \in AllPaths |-> Orders(detect_entry_point_calls(parse(path)))]

\* The values of enable_secrets, enable_danger and enable_quality.
Options ==
    [enable_secrets : BOOLEAN, enable_danger : BOOLEAN, enable_quality : BOOLEAN]

\* What a worker returns for each file, each iteration order of the callees
\* and each choice of options.
WorkerResults ==
    [path \in AllPaths |->
        [entry_calls \in EntryPointCalls[path] |->
            [self \in Options |-> worker(self, path, entry_calls)]]]

\* A collect() that takes the results in the order the workers ended.
\* C15_OutputIndependentOfWorkers fails with it.
collect_as_completed(rs, order) == [k \in 1..Len(order) |-> rs[order[k]]]

\* par_iter().map(..).collect(): the results in the order of files, whatever
\* order the workers ended in.
collect(rs, order) == rs

\* The reference lookup without the simple-name fallback.
\* C1_ReportedIffConfidentAndUnreferenced fails with it.
count_references_by_full_name(def, counts) ==
    IF def.full_name \in DOMAIN counts THEN counts[def.full_name] ELSE def.references

\* The reference count the aggregation loop leaves in a definition.
count_references(def, counts) ==
    IF def.full_name \in DOMAIN counts THEN counts[def.full_name]
    ELSE IF def.simple_name \in DOMAIN counts THEN counts[def.simple_name]
    ELSE def.references

\* An aggregation that counts, for a definition, the references of its own
\* file only.  C24_SameNameSameReferences fails with it.
aggregate_per_file(threshold, collected, total_files) ==
    Bind([f \in 1..Len(collected) |->
             Bind(collected[f][1].references, LAMBDA refs :
                 Bind([name \in {refs[i].name : i \in 1..Len(refs)} |->
                          Cardinality({i \in 1..Len(refs) : refs[i].name = name})],
                      LAMBDA counts :
                     [i \in 1..Len(collected[f][1].definitions) |->
                         [collected[f][1].definitions[i] EXCEPT
                             !.references =
                                 IF collected[f][1].definitions[i].full_name
                                        \in DOMAIN counts
                                 THEN counts[collected[f][1].definitions[i].full_name]
                                 ELSE IF collected[f][1].definitions[i].simple_name
                                             \in DOMAIN counts
                                 THEN counts[collected[f][1].definitions[i].simple_name]
                                 ELSE @]]))],
         LAMBDA per_file :
    Bind(Join(per_file, <<>>), LAMBDA defs :
        LET unused(types) ==
                SelectSeq(defs, LAMBDA d : /\ ~(d.confidence < threshold)
                                           /\ d.references = 0
                                           /\ d.def_type \in types)
            all(field) == Join([i \in 1..Len(collected) |-> collected[i][1][field]], <<>>)
        IN  [ref_counts |-> <<>>,
             aggregated |-> defs,
             result |-> [unused_functions |-> unused({"function", "method"}),
                         unused_imports |-> unused({"import"}),
                         unused_classes |-> unused({"class"}),
                         unused_variables |-> unused({"variable"}),
                         secrets |-> all("secrets"),
                         danger |-> all("danger"),
                         quality |-> all("quality"),
                         analysis_summary |->
                             [total_files |-> total_files,
                              secrets_count |-> Len(all("secrets")),
                              danger_count |-> Len(all("danger")),
                              quality_count |-> Len(all("quality"))]]]))

\* An aggregation in one pass: a definition gets the number of references of
\* its own file and of the files before it.
\* C14_SameMultisetsInAnyOrder fails with it.
aggregate_in_one_pass(threshold, collected, total_files) ==
    Bind([f \in 1..Len(collected) |->
             Bind(Join([i \in 1..f |-> collected[i][1].references], <<>>), LAMBDA refs :
                 Bind([name \in {refs[i].name : i \in 1..Len(refs)} |->
                          Cardinality({i \in 1..Len(refs) : refs[i].name = name})],
                      LAMBDA counts :
                     [i \in 1..Len(collected[f][1].definitions) |->
                         [collected[f][1].definitions[i] EXCEPT
                             !.references =
                                 IF @ = 0 /\ collected[f][1].definitions[i].full_name
                                                \notin DOMAIN counts
                                          /\ collected[f][1].definitions[i].simple_name
                                                \notin DOMAIN counts
                                 THEN 0 ELSE 1]]))],
         LAMBDA per_file :
    Bind(Join(per_file, <<>>), LAMBDA defs :
        LET unused(types) ==
                SelectSeq(defs, LAMBDA d : /\ ~(d.confidence < threshold)
                                           /\ d.references = 0
                                           /\ d.def_type \in types)
            all(field) == Join([i \in 1..Len(collected) |-> collected[i][1][field]], <<>>)
        IN  [ref_counts |-> <<>>,
             aggregated |-> defs,
             result |-> [unused_functions |-> unused({"function", "method"}),
                         unused_imports |-> unused({"import"}),
                         unused_classes |-> unused({"class"}),
                         unused_variables |-> unused({"variable"}),
                         secrets |-> all("secrets"),
                         danger |-> all("danger"),
                         quality |-> all("quality"),
                         analysis_summary |->
                             [total_files |-> total_files,
                              secrets_count |-> Len(all("secrets")),
                              danger_count |-> Len(all("danger")),
                              quality_count |-> Len(all("quality"))]]]))

\* Whether the aggregation loop reports a definition.
is_unused(def, threshold) == ~(def.confidence < threshold) /\ def.references = 0

\* The paths analyze can be given: the directory of the files, and a path
\* that does not exist.
Roots == {<<"p","r","o","j">>, <<"m","i","s","s","i","n","g">>}

\* WalkDir::new(root).into_iter(): an entry for every file under the root, or
\* one error when the root does not exist.  The entries of directories, which
\* the filter drops, are left out.
WalkDir(root_path, on_disk) ==
    IF \E p \in AllPaths : StartsWith(p, root_path \o <<"/">>)
    THEN {[ok |-> TRUE, path |-> p] : p \in {q \in on_disk : StartsWith(q, root_path \o <<"/">>)}}
    ELSE {[ok |-> FALSE, path |-> root_path]}

\* The AnalysisResult before analyze has built it.
NoResult ==
    [unused_functions |-> <<>>, unused_imports |-> <<>>, unused_classes |-> <<>>,
     unused_variables |-> <<>>, secrets |-> <<>>, danger |-> <<>>, quality |-> <<>>,
     analysis_summary |-> [total_files |-> 0, secrets_count |-> 0, danger_count |-> 0,
                           quality_count |-> 0]]

\* analyze has not begun.
Started ==
    /\ pc = "walk"
    /\ files = <<>>
    /\ results = <<>>
    /\ finished = <<>>
    /\ ref_counts = <<>>
    /\ aggregated = <<>>
    /\ result = NoResult

\* Skylos::new(confidence_threshold, false, false, false), as the tests of
\* tests/analyzer_test.rs construct it, and analyze on a directory of files.
Init ==
    /\ confidence_threshold \in Thresholds
    /\ enable_secrets = FALSE
    /\ enable_danger = FALSE
    /\ enable_quality = FALSE
    /\ root = <<"p","r","o","j">>
    /\ tree \in {t \in SUBSET Paths : Cardinality(t) <= MaxFiles}
    /\ Started
    /\ module_body = <<>>
    /\ entry_point_calls = None
    /\ NoLineIndex
    /\ NoVisit

\* WalkDir::new(path), without the errors, filtered to the files with
\* extension py.
Walk ==
    /\ pc = "walk"
    /\ \E order \in Orders({e.path : e \in {w \in WalkDir(root, tree) :
                                              w.ok /\ Extension(w.path) = Some(<<"p","y">>)}}) :
          /\ files' = order
          /\ results' = [i \in 1..Len(order) |-> None]
    /\ pc' = "workers"
    /\ UNCHANGED <<config_vars, finished, ref_counts, aggregated, result>>
    /\ UNCHANGED <<entry_point_vars, line_index_vars, visitor_vars>>

\* One worker of files.par_iter().map(..) processes the file i.
ProcessFile(i) ==
    /\ pc = "workers"
    /\ results[i] = None
    /\ \E entry_calls \in EntryPointCalls[files[i]] :
          results' =
              [results EXCEPT ![i] =
                  Some(WorkerResults[files[i]][entry_calls]
                           [[enable_secrets |-> enable_secrets,
                             enable_danger |-> enable_danger,
                             enable_quality |-> enable_quality]])]
    /\ finished' = Append(finished, i)
    /\ UNCHANGED <<config_vars, pc, files, ref_counts, aggregated, result>>
    /\ UNCHANGED <<entry_point_vars, line_index_vars, visitor_vars>>

\* The sequential part of analyze on the collected results: the reference
\* counts, the definitions with their reference count, and the AnalysisResult.
aggregate(threshold, collected, total_files) ==
    Bind(Join([i \in 1..Len(collected) |-> collected[i][1].definitions], <<>>),
         LAMBDA all_defs :
    Bind(Join([i \in 1..Len(collected) |-> collected[i][1].references], <<>>),
         LAMBDA all_refs :
    Bind(Join([i \in 1..Len(collected) |-> collected[i][1].secrets], <<>>),
         LAMBDA all_secrets :
    Bind(Join([i \in 1..Len(collected) |-> collected[i][1].danger], <<>>),
         LAMBDA all_danger :
    Bind(Join([i \in 1..Len(collected) |-> collected[i][1].quality], <<>>),
         LAMBDA all_quality :
    Bind([name \in {all_refs[i].name : i \in 1..Len(all_refs)} |->
             Cardinality({i \in 1..Len(all_refs) : all_refs[i].name = name})],
         LAMBDA counts :
    Bind([i \in 1..Len(all_defs) |->
             [all_defs[i] EXCEPT !.references = count_references(all_defs[i], counts)]],
         LAMBDA defs :
        LET unused(types) ==
                SelectSeq(defs, LAMBDA d : is_unused(d, threshold) /\ d.def_type \in types)
        IN  [ref_counts |-> counts,
             aggregated |-> defs,
             result |-> [unused_functions |-> unused({"function", "method"}),
                         unused_imports |-> unused({"import"}),
                         unused_classes |-> unused({"class"}),
                         unused_variables |-> unused({"variable"}),
                         secrets |-> all_secrets,
                         danger |-> all_danger,
                         quality |-> all_quality,
                         analysis_summary |->
                             [total_files |-> total_files,
                              secrets_count |-> Len(all_secrets),
                              danger_count |-> Len(all_danger),
                              quality_count |-> Len(all_quality)]]])))))))

\* The sequential part of analyze, once collect() has every worker's result.
Aggregate ==
    /\ pc = "workers"
    /\ \A i \in 1..Len(files) : results[i] # None
    /\ \E out \in {aggregate(confidence_threshold, collect(results, finished),
                               Len(files))} :
          /\ ref_counts' = out.ref_counts
          /\ aggregated' = out.aggregated
          /\ result' = out.result
    /\ pc' = "done"
    /\ UNCHANGED <<config_vars, files, results, finished>>
    /\ UNCHANGED <<entry_point_vars, line_index_vars, visitor_vars>>

Next ==
    \/ Walk
    \/ \E i \in 1..Len(files) : ProcessFile(i)
    \/ Aggregate

Spec == Init /\ [][Next]_vars

(***************************************************************************)
(* main.rs: Skylos::new(cli.confidence, cli.secrets, cli.danger,           *)
(* cli.quality) and analyze(&cli.path)                                     *)
(***************************************************************************)
\* The default of --confidence.
CliThresholds == {60}

\* The files of the directory the command is run on.
CliPaths == RulePaths \cup {<<"p","r","o","j","/","m","a","i","n",".","p","y">>, <<"p","r","o","j","/","u","s","e","r",".","p","y">>}

InitCli ==
    /\ confidence_threshold \in CliThresholds
    /\ enable_secrets \in BOOLEAN
    /\ enable_danger \in BOOLEAN
    /\ enable_quality \in BOOLEAN
    /\ root \in Roots
    /\ tree \in {t \in SUBSET CliPaths : Cardinality(t) <= MaxFiles}
    /\ Started
    /\ module_body = <<>>
    /\ entry_point_calls = None
    /\ NoLineIndex
    /\ NoVisit

SpecCli == InitCli /\ [][Next]_vars

(***************************************************************************)
(* entry_point.rs: detect_entry_point_calls applied to a module body       *)
(***************************************************************************)
MaxStmts == 2

MainGuard(op, body, orelse) ==
    If(Compare(Name(<<"_","_","n","a","m","e","_","_">>), <<op>>, <<Str(<<"_","_","m","a","i","n","_","_">>)>>), body, orelse)

CallStmt(name) == ExprStmt(Call(Name(name), <<>>), <<>>)

\* The top-level statements of the module bodies: a call outside any guard,
\* the guard of test_entry_point_detection with an else branch, the guard of
\* test_reversed_main_guard around an assignment, a guard inside a function
\* and one inside another `if`, a guard around an `if` with an else branch,
\* and an `if` that compares __name__ with "__main__" by `!=`.
TopLevelStmts ==
    { CallStmt(<<"o","u","t","s","i","d","e">>),
      MainGuard(<<"=","=">>, <<CallStmt(<<"m","y","_","f","u","n","c","t","i","o","n">>), CallStmt(<<"a","n","o","t","h","e","r","_","c","a","l","l">>)>>,
                <<CallStmt(<<"i","n","_","e","l","s","e">>)>>),
      If(Compare(Str(<<"_","_","m","a","i","n","_","_">>), <<<<"=","=">>>>, <<Name(<<"_","_","n","a","m","e","_","_">>)>>),
         <<Assign(<<NameStore(<<"x">>)>>, Call(Name(<<"f","u","n","c">>), <<>>), <<>>)>>, <<>>),
      FunctionDef(<<"w","r","a","p","p","e","r">>, <<>>, <<>>,
                  <<MainGuard(<<"=","=">>, <<CallStmt(<<"i","n","_","f","u","n","c","t","i","o","n">>)>>, <<>>)>>, <<>>),
      If(Name(<<"d","e","b","u","g">>), <<MainGuard(<<"=","=">>, <<CallStmt(<<"i","n","_","i","f">>)>>, <<>>)>>, <<>>),
      MainGuard(<<"=","=">>,
                <<If(Name(<<"d","e","b","u","g">>), <<CallStmt(<<"d","e","e","p">>)>>,
                     <<CallStmt(<<"d","e","e","p","e","r">>)>>)>>,
                <<>>),
      MainGuard(<<"!","=">>, <<CallStmt(<<"w","h","e","n","_","i","m","p","o","r","t","e","d">>)>>, <<>>) }

\* The module bodies of at most MaxStmts statements.
ModuleBodies ==
    UNION {[1..n -> TopLevelStmts] : n \in 0..MaxStmts}

\* No analysis is running.
NoAnalysis ==
    /\ confidence_threshold = 60
    /\ enable_secrets = FALSE
    /\ enable_danger = FALSE
    /\ enable_quality = FALSE
    /\ root = <<"p","r","o","j">>
    /\ tree = {}
    /\ pc = "idle"
    /\ files = <<>>
    /\ results = <<>>
    /\ finished = <<>>
    /\ ref_counts = <<>>
    /\ aggregated = <<>>
    /\ result = NoResult

InitEntryPoint ==
    /\ NoAnalysis
    /\ module_body \in ModuleBodies
    /\ entry_point_calls = None
    /\ NoLineIndex
    /\ NoVisit

\* let calls = detect_entry_point_calls(&module.body)
DetectEntryPointCalls ==
    /\ entry_point_calls = None
    /\ entry_point_calls' = Some(detect_entry_point_calls(module_body))
    /\ UNCHANGED <<module_body, analyze_vars, line_index_vars, visitor_vars>>

NextEntryPoint == DetectEntryPointCalls

SpecEntryPoint == InitEntryPoint /\ [][NextEntryPoint]_vars

\* ---------------------------------------------------------------------------
\* LineIndex on its own: every source of at most MaxSourceLen characters, and
\* every offset from 0 to its length in bytes.

MaxSourceLen == 3

\* The characters of the sources: a letter, the newline, and a character of
\* two bytes.
SourceChars == {"a", "\n", "U+00E9"}

Sources == UNION {[1..n -> SourceChars] : n \in 0..MaxSourceLen}

InitLineIndex ==
    /\ NoAnalysis
    /\ module_body = <<>>
    /\ entry_point_calls = None
    /\ li_source \in Sources
    /\ li_line_starts = None
    /\ li_offset = 0
    /\ li_line = None
    /\ NoVisit

\* let line_index = LineIndex::new(&source)
NewLineIndex ==
    /\ li_line_starts = None
    /\ li_line_starts' = Some(LineIndex_new(li_source))
    /\ UNCHANGED <<li_source, li_offset, li_line, analyze_vars, entry_point_vars, visitor_vars>>

\* line_index.line_index(offset), for an offset inside the source or at its end
LineIndexAt ==
    /\ li_line_starts # None
    /\ \E o \in 0..Bytes(li_source) :
        /\ li_offset' = o
        /\ li_line' = Some(line_index(li_line_starts[1], o))
    /\ UNCHANGED <<li_source, li_line_starts, analyze_vars, entry_point_vars, visitor_vars>>

NextLineIndex == NewLineIndex \/ LineIndexAt

SpecLineIndex == InitLineIndex /\ [][NextLineIndex]_vars

\* ---------------------------------------------------------------------------
\* The three visitors on one file, as the macros of tests/visitor_test.rs,
\* tests/framework_test.rs and tests/test_utils_test.rs run them: every path
\* of UnitPaths with every body of at most MaxBody statements.

MaxBody == 2

\* The longest string constant.
MaxStrLen == 2

\* tests/test_utils_test.rs: the paths of test_file_name_detection and of
\* test_non_test_file_detection, and a file in a directory `test`.
UnitPaths ==
    {<<"t","e","s","t","_","m","o","d","u","l","e",".","p","y">>, <<"m","o","d","u","l","e","_","t","e","s","t",".","p","y">>, <<"t","e","s","t","s","/","s","o","m","e","t","h","i","n","g",".","p","y">>, <<"t","e","s","t","s",".","p","y">>,
     <<"r","e","g","u","l","a","r","_","m","o","d","u","l","e",".","p","y">>, <<"t","e","s","t","/","u","n","i","t",".","p","y">>}

\* The statements of the bodies: the handlers of
\* test_fastapi_router_decorator_detection and the same handler as a `def`,
\* the function of test_async_function under a fixture decorator, classes in
\* classes and in functions with accesses through self and cls, the
\* statements of test_variables and of test_all_detection, and names read in
\* a `raise`, in a decorator and in an augmented assignment.
UnitStmts ==
    { AsyncFunctionDef(<<"r","e","a","d","_","i","t","e","m","s">>, <<>>,
                       <<Call(Attribute(Name(<<"r","o","u","t","e","r">>), <<"g","e","t">>), <<Str(<<"/","i","t","e","m","s">>)>>)>>,
                       <<Return(Some(List(<<>>)))>>, <<>>),
      FunctionDef(<<"r","e","a","d","_","i","t","e","m","s">>, <<>>,
                  <<Call(Attribute(Name(<<"r","o","u","t","e","r">>), <<"g","e","t">>), <<Str(<<"/","i","t","e","m","s">>)>>)>>,
                  <<Return(Some(List(<<>>)))>>, <<>>),
      AsyncFunctionDef(<<"a","s","y","n","c","_","f","u","n","c","t","i","o","n">>, <<>>,
                       <<Attribute(Name(<<"p","y","t","e","s","t">>), <<"f","i","x","t","u","r","e">>)>>,
                       <<ExprStmt(Await(Call(Name(<<"s","o","m","e","_","c","a","l","l">>), <<>>)), <<>>)>>, <<>>),
      AsyncFunctionDef(<<"o","u","t","e","r">>, <<>>, <<>>,
                       << ClassDef(<<"L","o","c","a","l">>, <<>>,
                                   <<AsyncFunctionDef(<<"j","o","b">>, <<<<"s","e","l","f">>>>,
                                                      <<Attribute(Name(<<"a","p","p">>), <<"t","a","s","k">>)>>,
                                                      <<Pass>>, <<>>)>>,
                                   <<>>) >>,
                       <<>>),
      ClassDef(<<"M","y","C","l","a","s","s">>, <<>>,
               << Assign(<<NameStore(<<"C","L","A","S","S","_","V","A","R">>)>>, Str(<<"c","l","a","s","s"," ","l","e","v","e","l">>), <<>>),
                  ClassDef(<<"I","n","n","e","r">>, <<>>, <<Method(<<"d","e","e","p">>, <<>>)>>, <<>>),
                  FunctionDef(<<"m","e","t","h","o","d">>, <<<<"s","e","l","f">>>>, <<>>,
                              << ExprStmt(Call(Attribute(Name(<<"s","e","l","f">>), <<"h","e","l","p","e","r">>), <<>>),
                                          <<>>),
                                 Return(Some(Attribute(Name(<<"c","l","s">>), <<"b","u","i","l","d">>))) >>,
                              <<>>),
                  Method(<<"h","e","l","p","e","r">>, <<>>) >>,
               <<>>),
      FunctionDef(<<"f","a","c","t","o","r","y">>, <<>>, <<>>,
                  << ClassDef(<<"P","r","o","d","u","c","t">>, <<>>, <<Method(<<"m","a","k","e">>, <<>>)>>, <<>>),
                     Function(<<"f","i","n","i","s","h">>, <<>>) >>,
                  <<>>),
      Assign(<<NameStore(<<"M","O","D","U","L","E","_","V","A","R">>)>>, Str(<<"m","o","d","u","l","e"," ","l","e","v","e","l">>), <<>>),
      Assign(<<NameStore(<<"_","_","a","l","l","_","_">>)>>, List(<<Str(<<"f","u","n","c","t","i","o","n","1">>), Str(<<"C","l","a","s","s","1">>)>>), <<>>),
      Raise(Some(Call(Name(<<"M","y","E","r","r","o","r">>), <<>>))),
      Decorated(Name(<<"m","y","_","d","e","c","o","r","a","t","o","r">>), <<"h","a","n","d","l","e","r">>, <<>>),
      AugAssign(NameStore(<<"t","o","t","a","l">>), <<"+">>, Call(Name(<<"c","o","m","p","u","t","e">>), <<>>)),
      ExprStmt(Attribute(Name(<<"s","e","l","f">>), <<"h","e","l","p","e","r">>), <<>>) }

\* The characters of the string constants.
StrChars == {"a", " ", "\t", "\n", "."}

StrConstants == UNION {[1..n -> StrChars] : n \in 0..MaxStrLen}

\* The bodies: the sequences of at most MaxBody statements, and an expression
\* statement for every string constant.
UnitBodies ==
    UNION {[1..n -> UnitStmts] : n \in 0..MaxBody}
    \cup {<<ExprStmt(Str(str), <<>>)>> : str \in StrConstants}

InitVisitor ==
    /\ NoAnalysis
    /\ module_body = <<>>
    /\ entry_point_calls = None
    /\ NoLineIndex
    /\ unit_path \in UnitPaths
    /\ unit_body \in UnitBodies
    /\ unit_visitors = None

\* The source of a body, parsed, and the three visitors given every
\* statement of the module.
visit_source(path, body) ==
    Bind(Emit(body, 0, 0), LAMBDA module : visit_statements(path, module.text, module.ast))

\* parse(source), LineIndex::new(source), the visitors' new and
\* `for stmt in &module.body { visitor.visit_stmt(stmt) }`
VisitModule ==
    /\ unit_visitors = None
    /\ unit_visitors' = Some(visit_source(unit_path, unit_body))
    /\ UNCHANGED <<unit_path, unit_body, analyze_vars, entry_point_vars, line_index_vars>>

NextVisitor == VisitModule

SpecVisitor == InitVisitor /\ [][NextVisitor]_vars

(***************************************************************************)
(* Properties of analyze                                                   *)
(***************************************************************************)
Done == pc = "done"

\* The definitions, after the penalty pass, and the references of the workers
\* that have finished, in the order of files.
Penalized ==
    Join([i \in 1..Len(results) |->
             IF results[i] = None THEN <<>> ELSE results[i][1].definitions], <<>>)

Collected ==
    Join([i \in 1..Len(results) |->
             IF results[i] = None THEN <<>> ELSE results[i][1].references], <<>>)

ListNames == {"unused_functions", "unused_imports", "unused_classes", "unused_variables"}

Reported == UNION {Range(result[l]) : l \in ListNames}

\* The number of the line (from 1) a character of a text is on: one more than
\* the number of newlines before it.
LineOfChar(source, i) == 1 + Cardinality({j \in 1..(i - 1) : source[j] = "\n"})

\* The lines of every file on which the pragma text occurs.
PragmaLineNumbers ==
    [path \in AllPaths |->
        LET source == read_to_string(path)
        IN  {LineOfChar(source, i) :
                i \in {j \in 1..(Len(source) - Len(PragmaText) + 1) :
                          SubSeq(source, j, j + Len(PragmaText) - 1) = PragmaText}}]

\* The offsets of the statements that create definitions.
RECURSIVE DefinitionOffsets(_)
DefinitionOffsets(stmts) ==
    IF stmts = <<>> THEN {}
    ELSE LET stmt == Head(stmts)
             own == IF \/ stmt.kind \in {"FunctionDef", "AsyncFunctionDef", "ClassDef", "Import"}
                       \/ /\ stmt.kind = "ImportFrom"
                          /\ stmt.module # Some(<<"_","_","f","u","t","u","r","e","_","_">>)
                    THEN {stmt.start} ELSE {}
             inner == IF HasBody(stmt) THEN DefinitionOffsets(stmt.body) ELSE {}
             other == IF stmt.kind = "If" THEN DefinitionOffsets(stmt.orelse) ELSE {}
         IN  own \cup inner \cup other \cup DefinitionOffsets(Tail(stmts))

\* The lines of every file on which a statement that creates definitions
\* starts.
DefinitionLineNumbers ==
    [path \in AllPaths |->
        LET source == read_to_string(path)
            newlines == {j \in 1..Len(source) : source[j] = "\n"}
        IN  {1 + Cardinality({j \in newlines : ByteOffset(source, j) < offset}) :
                offset \in DefinitionOffsets(parse(path))}]

IsDunderName(name) ==
    /\ Len(name) >= 2
    /\ SubSeq(name, 1, 2) = <<"_","_">>
    /\ SubSeq(name, Len(name) - 1, Len(name)) = <<"_","_">>

IsPrivateName(name) ==
    /\ Len(name) >= 1
    /\ name[1] = "_"
    /\ ~(Len(name) >= 2 /\ name[2] = "_")

IsImplicitName(name) ==
    \/ \E prefix \in {<<"t","e","s","t","_">>, <<"v","i","s","i","t","_">>, <<"l","e","a","v","e","_">>, <<"o","n","_">>} :
          Len(name) >= Len(prefix) /\ SubSeq(name, 1, Len(prefix)) = prefix
    \/ name \in {<<"m","a","i","n">>, <<"r","u","n">>, <<"e","x","e","c","u","t","e">>}
    \/ IsDunderName(name)

InTestCode(def) ==
    \/ Visited[def.file].tv.is_test_file
    \/ def.line \in Range(Visited[def.file].tv.test_decorated_lines)

OnFrameworkLine(def) == def.line \in Visited[def.file].fv.framework_decorated_lines

OnPragmaLine(def) == def.line \in PragmaLineNumbers[def.file]

\* The number of collected references to a name.
Occurrences(name) ==
    Cardinality({i \in 1..Len(Collected) : Collected[i].name = name})

C2_PragmaLineNeverReported ==
    Done =>
      /\ \A d \in Reported : ~OnPragmaLine(d)
      /\ \A i \in 1..Len(aggregated) :
            aggregated[i].full_name = <<"d","e","m","o",".","u","n","u","s","e","d","_","n","o","_","i","g","n","o","r","e">>
                => aggregated[i] \in Range(result.unused_functions)

\* C3: after the penalty pass a definition whose line is in the pragma set has
\* confidence 0; the lines of the definitions and the lines of the pragma set
\* are both the lines of the text counted from 1.
C3_PragmaZeroesConfidence ==
    /\ \A i \in 1..Len(Penalized) :
          /\ Penalized[i].line \in IgnoredLines[Penalized[i].file]
                => Penalized[i].confidence = 0
          /\ OnPragmaLine(Penalized[i]) => Penalized[i].confidence = 0
    /\ \A i \in 1..Len(results) :
          results[i] # None =>
            /\ {d.line : d \in Range(results[i][1].definitions)}
                  = DefinitionLineNumbers[files[i]]
            /\ IgnoredLines[files[i]] = PragmaLineNumbers[files[i]]

\* A function of a file that is no test file, under a framework decorator and
\* with the pragma on its line, has confidence 0.
C3_Witness ==
    \E i \in 1..Len(Penalized) :
        /\ OnPragmaLine(Penalized[i])
        /\ OnFrameworkLine(Penalized[i])
        /\ ~InTestCode(Penalized[i])
        /\ ~IsDunderName(Penalized[i].simple_name)
        /\ Penalized[i].confidence = 0

\* C4: after the penalty pass every definition whose simple name starts and
\* ends with two underscores has confidence 0.
C4_DunderHasNoConfidence ==
    \A i \in 1..Len(Penalized) :
        IsDunderName(Penalized[i].simple_name) => Penalized[i].confidence = 0

\* A dunder method under a framework decorator, outside test code and without
\* the pragma, has confidence 0.
C4_Witness ==
    \E i \in 1..Len(Penalized) :
        /\ IsDunderName(Penalized[i].simple_name)
        /\ OnFrameworkLine(Penalized[i])
        /\ ~InTestCode(Penalized[i])
        /\ ~OnPragmaLine(Penalized[i])
        /\ Penalized[i].confidence = 0

\* C5: after the penalty pass every definition of a test file, and every
\* definition on a test-decorated line, has confidence 0.
C5_TestCodeHasNoConfidence ==
    \A i \in 1..Len(Penalized) :
        InTestCode(Penalized[i]) => Penalized[i].confidence = 0

\* A plain function of a test file and a definition on a test-decorated line of
\* another file, neither with the pragma nor with a dunder name, have
\* confidence 0.
C5_Witness ==
    /\ \E i \in 1..Len(Penalized) :
          /\ Visited[Penalized[i].file].tv.is_test_file
          /\ ~OnPragmaLine(Penalized[i])
          /\ ~OnFrameworkLine(Penalized[i])
          /\ ~IsDunderName(Penalized[i].simple_name)
          /\ ~IsPrivateName(Penalized[i].simple_name)
          /\ Penalized[i].confidence = 0
    /\ \E i \in 1..Len(Penalized) :
          /\ ~Visited[Penalized[i].file].tv.is_test_file
          /\ Penalized[i].line \in Range(Visited[Penalized[i].file].tv.test_decorated_lines)
          /\ ~OnPragmaLine(Penalized[i])
          /\ ~IsDunderName(Penalized[i].simple_name)
          /\ Penalized[i].confidence = 0

\* C6: every definition analyze returns has a confidence from 0 to 100 and a
\* def_type among function, method, class, import and variable.
C6_ReportedFieldsInRange ==
    \A d \in Reported :
        /\ d.confidence \in 0..100
        /\ d.def_type \in {"function", "method", "class", "import", "variable"}

\* A result with a definition of confidence 20, one of confidence 0, and a
\* method, a class and an import.
C6_Witness ==
    /\ Done
    /\ \E d \in Reported : d.confidence = 20
    /\ \E d \in Reported : d.confidence = 0
    /\ \E d \in Reported : d.def_type = "method"
    /\ \E d \in Reported : d.def_type = "class"
    /\ \E d \in Reported : d.def_type = "import"

\* C7: a function or class of a file named __init__.py has in_init = true and
\* a confidence 20 lower than the other rules give: 80 for a public function
\* or class, 50 for a function with one leading underscore.
C7_InitFilePenalty ==
    \A i \in 1..Len(Penalized) :
        LET d == Penalized[i]
        IN  (FileName(d.file) = <<"_","_","i","n","i","t","_","_",".","p","y">> /\ d.def_type \in {"function", "class"})
                => /\ d.in_init
                   /\ d.confidence = IF IsPrivateName(d.simple_name) THEN 50 ELSE 80

C10_DunderReportedAtThresholdZero ==
    (Done /\ confidence_threshold = 0) =>
      \A i \in 1..Len(aggregated) :
          LET d == aggregated[i]
          IN  (/\ d.def_type = "method"
               /\ IsDunderName(d.simple_name)
               /\ Occurrences(d.full_name) = 0
               /\ Occurrences(d.simple_name) = 0)
                  => \E k \in 1..Len(result.unused_functions) :
                        /\ result.unused_functions[k].full_name = d.full_name
                        /\ result.unused_functions[k].file = d.file
                        /\ result.unused_functions[k].confidence = 0

\* The callees `f` of the expression statements `f()` in the then-body of the
\* top-level statements `if __name__ == "__main__"`, operands in either order.
GuardedCalls(stmts) ==
    UNION {{stmts[i].body[j].value.func.id :
               j \in {k \in 1..Len(stmts[i].body) :
                        /\ stmts[i].body[k].kind = "Expr"
                        /\ stmts[i].body[k].value.kind = "Call"
                        /\ stmts[i].body[k].value.func.kind = "Name"}} :
             i \in {k \in 1..Len(stmts) :
                      /\ stmts[k].kind = "If"
                      /\ stmts[k].test.kind = "Compare"
                      /\ stmts[k].test.ops = <<<<"=","=">>>>
                      /\ {stmts[k].test.left, stmts[k].test.comparators[1]}
                            = {Name(<<"_","_","n","a","m","e","_","_">>), Str(<<"_","_","m","a","i","n","_","_">>)}}}

\* C11: a function f called by an expression statement in the then-body of a
\* top-level `if __name__ == "__main__"` (operands in either order) is in the
\* entry-point callee set of the file, the file's worker records references
\* to f and to module.f, and no definition with the simple name f, of any
\* file, is in an unused list.
C11_EntryPointCallsKeepDefinitionsAlive ==
    \A i \in 1..Len(results) :
        results[i] # None =>
            \A f \in GuardedCalls(parse(files[i])) :
                /\ f \in detect_entry_point_calls(parse(files[i]))
                /\ \A name \in {f, FileStem(files[i]) \o <<".">> \o f} :
                      \E k \in 1..Len(results[i][1].references) :
                          results[i][1].references[k] = [name |-> name, file |-> files[i]]
                /\ Done => \A d \in Reported : d.simple_name # f

\* cli.py, whose guard is the only caller of my_function, was analyzed with
\* run.py, whose guard has the operands reversed: my_function of run.py and
\* func, confident enough to be reported, are in no unused list.
C11_Witness ==
    /\ Done
    /\ tree = {<<"p","r","o","j","/","c","l","i",".","p","y">>, <<"p","r","o","j","/","r","u","n",".","p","y">>}
    /\ GuardedCalls(parse(<<"p","r","o","j","/","c","l","i",".","p","y">>)) = {<<"m","y","_","f","u","n","c","t","i","o","n">>, <<"a","n","o","t","h","e","r","_","c","a","l","l">>}
    /\ GuardedCalls(parse(<<"p","r","o","j","/","r","u","n",".","p","y">>)) = {<<"f","u","n","c">>}
    /\ \A name \in {<<"r","u","n",".","m","y","_","f","u","n","c","t","i","o","n">>, <<"r","u","n",".","f","u","n","c">>, <<"c","l","i",".","m","y","_","f","u","n","c","t","i","o","n">>} :
          \E i \in 1..Len(aggregated) :
              /\ aggregated[i].full_name = name
              /\ aggregated[i].confidence >= confidence_threshold
              /\ aggregated[i].references >= 1
              /\ aggregated[i] \notin Reported

\* The callees of the calls that occur anywhere in an expression or in
\* statements.
RECURSIVE CalleesInExpr(_)
CalleesInExpr(e) ==
    CASE e.kind = "Call" ->
            (IF e.func.kind = "Name" THEN {e.func.id}
             ELSE IF e.func.kind = "Attribute" THEN {e.func.attr} ELSE {})
            \cup CalleesInExpr(e.func)
            \cup UNION {CalleesInExpr(e.args[i]) : i \in 1..Len(e.args)}
      [] e.kind = "Attribute" -> CalleesInExpr(e.value)
      [] e.kind = "BinOp" -> CalleesInExpr(e.left) \cup CalleesInExpr(e.right)
      [] e.kind = "Compare" ->
            CalleesInExpr(e.left)
            \cup UNION {CalleesInExpr(e.comparators[i]) : i \in 1..Len(e.comparators)}
      [] e.kind = "List" -> UNION {CalleesInExpr(e.elts[i]) : i \in 1..Len(e.elts)}
      [] OTHER -> {}

RECURSIVE CalleesIn(_)
CalleesIn(body) ==
    UNION {LET s == body[i]
           IN  CASE s.kind \in {"Expr", "Assign"} -> CalleesInExpr(s.value)
                 [] s.kind = "Return" ->
                       IF s.value = None THEN {} ELSE CalleesInExpr(s.value[1])
                 [] s.kind = "If" ->
                       CalleesInExpr(s.test) \cup CalleesIn(s.body) \cup CalleesIn(s.orelse)
                 [] s.kind \in {"FunctionDef", "AsyncFunctionDef", "ClassDef"} ->
                       CalleesIn(s.body)
                 [] OTHER -> {}
           : i \in 1..Len(body)}

\* Whether a statement is `if __name__ == "__main__"`, operands in either
\* order.
IsNameEqualsMain(s) ==
    /\ s.kind = "If"
    /\ s.test.kind = "Compare"
    /\ s.test.ops = <<<<"=","=">>>>
    /\ {s.test.left, s.test.comparators[1]} = {Name(<<"_","_","n","a","m","e","_","_">>), Str(<<"_","_","m","a","i","n","_","_">>)}

\* C12: detect_entry_point_calls returns the empty set for a module without a
\* top-level `if __name__ == "__main__"`, and every name it returns is the
\* callee of a call in the then-body of such a top-level statement: a call
\* only in the else branch of the guard, in a guard inside another statement
\* or outside any guard is not returned.
C12_CalleesOnlyFromGuardThenBody ==
    entry_point_calls # None =>
        LET guards == {i \in 1..Len(module_body) : IsNameEqualsMain(module_body[i])}
        IN  /\ guards = {} => entry_point_calls[1] = {}
            /\ entry_point_calls[1] \subseteq UNION {CalleesIn(module_body[i].body) : i \in guards}

\* The names `b` of the bases of the statements `class C(b)` that occur
\* anywhere in the statements.
RECURSIVE BaseNames(_)
BaseNames(body) ==
    UNION {LET s == body[i]
           IN  (IF s.kind = "ClassDef"
                THEN {s.bases[k].id : k \in {j \in 1..Len(s.bases) : s.bases[j].kind = "Name"}}
                ELSE {})
               \cup (IF HasBody(s) THEN BaseNames(s.body) ELSE {})
               \cup (IF s.kind = "If" THEN BaseNames(s.orelse) ELSE {})
           : i \in 1..Len(body)}

\* C13: a class that is named as a base of a class of an analyzed file, the
\* same file or another one, has references >= 1 after the aggregation and is
\* not in unused_classes; the worker of the file of `class Child(Parent)`
\* records references to Parent and to module.Parent.
C13_BaseClassIsReferenced ==
    /\ \A i \in 1..Len(results) :
          results[i] # None =>
              \A base \in BaseNames(parse(files[i])) :
                  \A name \in {base, FileStem(files[i]) \o <<".">> \o base} :
                      \E k \in 1..Len(results[i][1].references) :
                          results[i][1].references[k] = [name |-> name, file |-> files[i]]
    /\ Done =>
          \A i \in 1..Len(aggregated) :
              (/\ aggregated[i].def_type = "class"
               /\ \E f \in 1..Len(files) :
                     aggregated[i].simple_name \in BaseNames(parse(files[f])))
                  => /\ aggregated[i].references >= 1
                     /\ aggregated[i] \notin Range(result.unused_classes)

\* app.py, which defines Worker, was analyzed with run.py, which has
\* `class Parent`, `class Child(Parent)` and `class Handler(Worker)` and no
\* other mention of Parent or Worker: both classes, confident enough to be
\* reported, are not in unused_classes, and Child, which nothing names, is.
C13_Witness ==
    /\ Done
    /\ tree = {<<"p","r","o","j","/","a","p","p",".","p","y">>, <<"p","r","o","j","/","r","u","n",".","p","y">>}
    /\ \A name \in {<<"r","u","n",".","P","a","r","e","n","t">>, <<"a","p","p",".","W","o","r","k","e","r">>} :
          \E i \in 1..Len(aggregated) :
              /\ aggregated[i].full_name = name
              /\ aggregated[i].def_type = "class"
              /\ aggregated[i].confidence >= confidence_threshold
              /\ aggregated[i].references >= 1
              /\ aggregated[i] \notin Range(result.unused_classes)
    /\ \E k \in 1..Len(result.unused_classes) :
          result.unused_classes[k].full_name = <<"r","u","n",".","C","h","i","l","d">>

\* The files analyze processes.
PythonFiles == {e.path : e \in {w \in WalkDir(root, tree) :
                                   w.ok /\ Extension(w.path) = Some(<<"p","y">>)}}

\* The AnalysisResult of analyze when WalkDir finds the files in the given
\* order.
AnalyzeInOrder(order) ==
    aggregate(confidence_threshold,
              [i \in 1..Len(order) |->
                  Some(WorkerResults[order[i]]
                           [CHOOSE entry_calls \in EntryPointCalls[order[i]] : TRUE]
                           [[enable_secrets |-> enable_secrets,
                             enable_danger |-> enable_danger,
                             enable_quality |-> enable_quality]])],
              Len(order)).result

\* How many times each element occurs in a list.
Multiset(list) ==
    [x \in Range(list) |-> Cardinality({i \in 1..Len(list) : list[i] = x})]

FindingLists == {"secrets", "danger", "quality"}

\* C14: whatever the order the files are processed in, analyze reports the
\* same multiset of unused definitions, with their confidence and
\* references, in each list, and the same multisets of secret, danger and
\* quality findings.
C14_SameMultisetsInAnyOrder ==
    Done =>
        \A order \in Orders(PythonFiles) :
            \A l \in ListNames \cup FindingLists :
                Multiset(result[l]) = Multiset(AnalyzeInOrder(order)[l])

\* Two files with findings of every kind and with unused definitions were
\* processed in an order in which another order gives other lists.
C14_Witness ==
    /\ Done
    /\ tree = {<<"p","r","o","j","/","s","e","t","t","i","n","g","s",".","p","y">>, <<"p","r","o","j","/","t","a","s","k","s",".","p","y">>}
    /\ enable_secrets /\ enable_danger /\ enable_quality
    /\ result.danger # <<>> /\ result.quality # <<>>
    /\ \E order \in Orders(PythonFiles) :
          /\ AnalyzeInOrder(order).secrets # result.secrets
          /\ AnalyzeInOrder(order).unused_functions # result.unused_functions

\* C15: the output of analyze is a function of the tree, the options and the
\* order in which WalkDir finds the files: the content and the order of every
\* list are those of the results taken in the order of files, whatever order
\* the workers ended in and whatever order each worker iterated its
\* entry-point callees in; a worker's definitions and findings are those of
\* its own file.
C15_OutputIndependentOfWorkers ==
    /\ \A i \in 1..Len(results) :
          results[i] # None =>
              \A entry_calls \in EntryPointCalls[files[i]] :
                  LET alone == WorkerResults[files[i]][entry_calls]
                                   [[enable_secrets |-> enable_secrets,
                                     enable_danger |-> enable_danger,
                                     enable_quality |-> enable_quality]]
                  IN  \A field \in {"definitions", "secrets", "danger", "quality"} :
                          results[i][1][field] = alone[field]
    /\ Done => result = AnalyzeInOrder(files)

\* The worker of the second file ended before the worker of the first, and
\* both files have unused functions and secret findings in the output.
C15_Witness ==
    /\ Done
    /\ finished = <<2, 1>>
    /\ enable_secrets
    /\ \A i \in {1, 2} :
          /\ \E k \in 1..Len(result.secrets) : result.secrets[k].file = files[i]
          /\ \E k \in 1..Len(result.unused_functions) :
                result.unused_functions[k].file = files[i]
    /\ result.secrets[1].file = files[1]
    /\ result.unused_functions[1].file = files[1]

\* The files that cannot be read or cannot be parsed.
Unusable == Unreadable \cup Broken

\* C16: the worker of a file that cannot be read or parsed returns no
\* definition, no reference and no danger or quality finding; it returns the
\* secret findings of the text when secret scanning is enabled and the file
\* could be read, none otherwise.  analyze ends with such a file counted in
\* total_files, and with the unused definitions and the findings of the other
\* files as they are without it.
C16_UnusableFileContributesNothing ==
    /\ \A i \in 1..Len(results) :
          (results[i] # None /\ files[i] \in Unusable) =>
              /\ \A field \in {"definitions", "references", "danger", "quality"} :
                    results[i][1][field] = <<>>
              /\ results[i][1].secrets =
                    IF enable_secrets /\ files[i] \notin Unreadable
                    THEN scan_secrets(Parsed[files[i]].text, files[i])
                    ELSE <<>>
    /\ Done =>
          LET others == SelectSeq(files, LAMBDA p : p \notin Unusable)
              without == AnalyzeInOrder(others)
          IN  /\ result.analysis_summary.total_files = Cardinality(PythonFiles)
              /\ \A l \in ListNames \cup {"danger", "quality"} : result[l] = without[l]
              /\ SelectSeq(result.secrets, LAMBDA f : f.file \notin Unusable)
                    = without.secrets

\* A file with a syntax error and a secret was analyzed with settings.py and
\* every option: both are counted, the secret of the broken file is reported,
\* its function is not, and the unused function of settings.py is.
C16_Witness ==
    /\ Done
    /\ tree = {<<"p","r","o","j","/","b","r","o","k","e","n",".","p","y">>, <<"p","r","o","j","/","s","e","t","t","i","n","g","s",".","p","y">>}
    /\ enable_secrets /\ enable_danger /\ enable_quality
    /\ result.analysis_summary.total_files = 2
    /\ \E k \in 1..Len(result.secrets) : result.secrets[k].file = <<"p","r","o","j","/","b","r","o","k","e","n",".","p","y">>
    /\ \A i \in 1..Len(aggregated) : aggregated[i].file # <<"p","r","o","j","/","b","r","o","k","e","n",".","p","y">>
    /\ \E k \in 1..Len(result.unused_functions) :
          result.unused_functions[k].full_name = <<"s","e","t","t","i","n","g","s",".","l","o","a","d","_","s","e","t","t","i","n","g","s">>

\* C17: analyze does not return a result when the path it is given does not
\* exist.
C17_MissingRootIsAnError == root = <<"m","i","s","s","i","n","g">> => ~Done

\* C19: no secret finding of a worker is on a line that contains
\* `pragma: no skylos`.
C19_PragmaSuppressesSecrets ==
    \A i \in 1..Len(results) :
        results[i] # None =>
            \A k \in 1..Len(results[i][1].secrets) :
                ~Contains(Lines(read_to_string(files[i]))[results[i][1].secrets[k].line],
                          PragmaText)

\* C20: every reported definition has a confidence above the threshold.
C20_ReportedAboveThreshold ==
    Done => \A d \in Reported : d.confidence > confidence_threshold

\* ---------------------------------------------------------------------------
\* C18

\* The number of newline characters of a text at byte positions smaller than o.
NewlinesBefore(text, o) ==
    Cardinality({i \in 1..Len(text) : text[i] = "\n" /\ ByteOffset(text, i) < o})

\* C18: the line line_index returns for an offset between 0 and the length of
\* the source is one more than the number of newlines at byte positions
\* smaller than the offset; so offset 0 is on line 1, the offset right after a
\* newline is on the line after the newline's, and the line never decreases as
\* the offset grows.
C18_LineIsOnePlusNewlinesBefore ==
    /\ li_line # None => li_line[1] = 1 + NewlinesBefore(li_source, li_offset)
    /\ li_line_starts # None =>
        \A o \in 0..Bytes(li_source) :
            /\ o = 0 => line_index(li_line_starts[1], o) = 1
            /\ \A i \in 1..Len(li_source) :
                li_source[i] = "\n" /\ o = ByteOffset(li_source, i) + 1 =>
                    line_index(li_line_starts[1], o)
                        = line_index(li_line_starts[1], o - 1) + 1
            /\ \A q \in 0..o :
                line_index(li_line_starts[1], q) <= line_index(li_line_starts[1], o)

\* The offset right after the second newline of a source that has a two-byte
\* character before it has been converted, to line 3.
C18_Witness ==
    /\ li_source = <<"U+00E9", "\n", "\n">>
    /\ li_offset = 4
    /\ li_line = Some(3)

\* ---------------------------------------------------------------------------
\* C21

\* The statements with every `async def` written as a `def`.
RECURSIVE AsSync(_)
AsSync(stmts) ==
    [i \in 1..Len(stmts) |->
        LET s == stmts[i]
            inner == IF HasBody(s) THEN [s EXCEPT !.body = AsSync(s.body)] ELSE s
        IN  IF s.kind = "If" THEN [inner EXCEPT !.orelse = AsSync(s.orelse)]
            ELSE IF s.kind = "AsyncFunctionDef" THEN [inner EXCEPT !.kind = "FunctionDef"]
            ELSE inner]

\* What the visitors hold after a traversal, without the offsets.
Findings(visitors) ==
    [definitions |-> visitors.v.definitions,
     references |-> visitors.v.references,
     framework_decorated_lines |-> visitors.fv.framework_decorated_lines,
     is_framework_file |-> visitors.fv.is_framework_file,
     test_decorated_lines |-> visitors.tv.test_decorated_lines]

\* C21: the visitors find in a module the definitions, the references, the
\* framework-decorated lines and the test-decorated lines they find in the
\* same module with every `async def` written as a `def`.
C21_AsyncDefVisitedAsDef ==
    unit_visitors # None =>
        Findings(unit_visitors[1]) = Findings(visit_source(unit_path, AsSync(unit_body)))

\* ---------------------------------------------------------------------------
\* C22

\* The paths the tests list as test files: a directory `test` or `tests` on
\* the path, a file name that ends with `_test.py` or starts with `test_`, and
\* the file `tests.py`.
ListedAsTestFile(path) ==
    LET parts == Split(path, "/")
        directories == {parts[i] : i \in 1..(Len(parts) - 1)}
    IN  \/ directories \cap {<<"t","e","s","t">>, <<"t","e","s","t","s">>} # {}
        \/ EndsWith(FileName(path), <<"_","t","e","s","t",".","p","y">>)
        \/ StartsWith(FileName(path), <<"t","e","s","t","_">>)
        \/ FileName(path) = <<"t","e","s","t","s",".","p","y">>

\* C22: TestAwareVisitor::new sets is_test_file for exactly the paths the
\* tests list as test files; regular_module.py is not one.
C22_ListedTestFilesAreTestFiles ==
    unit_visitors # None =>
        /\ ListedAsTestFile(unit_path) => unit_visitors[1].tv.is_test_file
        /\ unit_path = <<"r","e","g","u","l","a","r","_","m","o","d","u","l","e",".","p","y">> => ~unit_visitors[1].tv.is_test_file

\* ---------------------------------------------------------------------------
\* C23

\* The identifiers of the names in load context in an expression.
RECURSIVE LoadNamesOfExpr(_)
LoadNamesOfExpr(e) ==
    LET Each(es) == UNION {LoadNamesOfExpr(es[i]) : i \in 1..Len(es)}
    IN  CASE e.kind = "Name" -> IF e.ctx = "Load" THEN {e.id} ELSE {}
          [] e.kind = "Attribute" -> LoadNamesOfExpr(e.value)
          [] e.kind = "Call" ->
                LoadNamesOfExpr(e.func) \cup Each(e.args)
                \cup Each([i \in 1..Len(e.keywords) |-> e.keywords[i].value])
          [] e.kind = "List" -> Each(e.elts)
          [] e.kind = "Compare" -> LoadNamesOfExpr(e.left) \cup Each(e.comparators)
          [] e.kind = "BinOp" -> LoadNamesOfExpr(e.left) \cup LoadNamesOfExpr(e.right)
          [] e.kind = "Await" -> LoadNamesOfExpr(e.value)
          [] OTHER -> {}

\* The identifiers of the names in load context anywhere in the statements.
RECURSIVE LoadNames(_)
LoadNames(stmts) ==
    UNION {LET s == stmts[i]
               Each(es) == UNION {LoadNamesOfExpr(es[k]) : k \in 1..Len(es)}
           IN  (IF HasBody(s) THEN LoadNames(s.body) ELSE {})
               \cup (CASE s.kind \in {"FunctionDef", "AsyncFunctionDef"} ->
                            Each(s.decorator_list)
                       [] s.kind = "ClassDef" -> Each(s.bases)
                       [] s.kind = "Assign" -> Each(s.targets) \cup LoadNamesOfExpr(s.value)
                       [] s.kind = "Expr" -> LoadNamesOfExpr(s.value)
                       [] s.kind = "If" -> LoadNamesOfExpr(s.test) \cup LoadNames(s.orelse)
                       [] s.kind = "Return" -> Each(s.value)
                       [] s.kind = "Raise" -> Each(s.exc)
                       [] s.kind = "AugAssign" -> LoadNamesOfExpr(s.value)
                       [] OTHER -> {})
           : i \in 1..Len(stmts)}

\* C23: the visitor has recorded a reference for every name in load context
\* of the module, whatever statement or expression the name is in.
C23_EveryLoadNameIsReferenced ==
    unit_visitors # None =>
        LoadNames(unit_body)
            \subseteq {unit_visitors[1].v.references[k].name :
                          k \in 1..Len(unit_visitors[1].v.references)}

\* ---------------------------------------------------------------------------
\* C24

\* C24: after aggregation two definitions with the same full_name, of one file
\* or of two, have the same number of references, and so both or neither are
\* reported.
C24_SameNameSameReferences ==
    Done =>
        \A i, j \in 1..Len(aggregated) :
            aggregated[i].full_name = aggregated[j].full_name =>
                /\ aggregated[i].references = aggregated[j].references
                /\ aggregated[i].confidence = aggregated[j].confidence =>
                      (aggregated[i] \in Reported <=> aggregated[j] \in Reported)

\* proj/run.py calls func under its guard and proj/pkg/run.py defines
\* run.func twice: the three definitions of run.func have the references of
\* proj/run.py, and none is reported.
C24_Witness ==
    /\ Done
    /\ tree = {<<"p","r","o","j","/","r","u","n",".","p","y">>, <<"p","r","o","j","/","p","k","g","/","r","u","n",".","p","y">>}
    /\ \E i, j \in 1..Len(aggregated) :
          /\ aggregated[i].full_name = <<"r","u","n",".","f","u","n","c">>
          /\ aggregated[j].full_name = <<"r","u","n",".","f","u","n","c">>
          /\ aggregated[i].file = <<"p","r","o","j","/","r","u","n",".","p","y">>
          /\ aggregated[j].file = <<"p","r","o","j","/","p","k","g","/","r","u","n",".","p","y">>
          /\ aggregated[i].references > 0
          /\ aggregated[j].references = aggregated[i].references
          /\ aggregated[j] \notin Reported
    /\ \E d \in Reported : d.full_name = <<"r","u","n",".","s","p","a","r","e">>

\* ---------------------------------------------------------------------------
\* C25

\* The attribute accesses on a name in an expression the visitor is given,
\* each with the class stack `classes` it is made under.
RECURSIVE AccessesOfExpr(_, _)
AccessesOfExpr(e, classes) ==
    LET Each(es) == Join([i \in 1..Len(es) |-> AccessesOfExpr(es[i], classes)], <<>>)
    IN  CASE e.kind = "Attribute" ->
                (IF e.value.kind = "Name"
                 THEN <<[base |-> e.value.id, attr |-> e.attr, classes |-> classes]>>
                 ELSE <<>>)
                \o AccessesOfExpr(e.value, classes)
          [] e.kind = "Call" ->
                AccessesOfExpr(e.func, classes) \o Each(e.args)
                \o Each([i \in 1..Len(e.keywords) |-> e.keywords[i].value])
          [] e.kind = "List" -> Each(e.elts)
          [] e.kind = "Compare" -> AccessesOfExpr(e.left, classes) \o Each(e.comparators)
          [] e.kind = "BinOp" ->
                AccessesOfExpr(e.left, classes) \o AccessesOfExpr(e.right, classes)
          [] e.kind = "Await" -> AccessesOfExpr(e.value, classes)
          [] OTHER -> <<>>

\* The same for the statements the visitor traverses: the bases and the body
\* of a class, the body of a function, the value of an assignment, of an
\* expression statement and of a return, the test and the branches of an `if`.
RECURSIVE Accesses(_, _)
Accesses(stmts, classes) ==
    Join([i \in 1..Len(stmts) |->
             LET s == stmts[i]
                 Each(es) == Join([k \in 1..Len(es) |-> AccessesOfExpr(es[k], classes)], <<>>)
             IN  CASE s.kind = "ClassDef" ->
                        Each(s.bases) \o Accesses(s.body, Append(classes, s.name))
                   [] s.kind \in {"FunctionDef", "AsyncFunctionDef"} ->
                        Accesses(s.body, classes)
                   [] s.kind \in {"Assign", "Expr"} -> AccessesOfExpr(s.value, classes)
                   [] s.kind = "If" ->
                        AccessesOfExpr(s.test, classes) \o Accesses(s.body, classes)
                        \o Accesses(s.orelse, classes)
                   [] s.kind = "Return" -> Each(s.value)
                   [] OTHER -> <<>>],
         <<>>)

\* Whether an access is one on self or cls made inside a class.
OnOwnClass(access) == access.base \in {<<"s","e","l","f">>, <<"c","l","s">>} /\ access.classes # <<>>

\* How many references with a name a list of references holds.
Recorded(references, name) ==
    Cardinality({k \in 1..Len(references) : references[k].name = name})

\* module.ClassStack.m for an access self.m or cls.m in a file.
OwnMethod(path, access) ==
    Join((IF FileStem(path) # <<>> THEN <<FileStem(path)>> ELSE <<>>)
         \o access.classes \o <<access.attr>>, <<".">>)

\* For every access self.m or cls.m made inside a class of the statements the
\* reference module.ClassStack.m is among the references; `m` and `self.m` are
\* there only for the accesses made on other names or outside any class
\* (when no name read in the file and no callee of its guard is `m`).
OwnAccessesQualified(path, stmts, references) ==
    LET seen == Accesses(stmts, <<>>)
        Loose(name_of(_), name) ==
            Cardinality({k \in 1..Len(seen) :
                            ~OnOwnClass(seen[k]) /\ name_of(seen[k]) = name})
    IN  \A k \in 1..Len(seen) :
            OnOwnClass(seen[k]) =>
                /\ Recorded(references, OwnMethod(path, seen[k])) >= 1
                /\ seen[k].attr \notin LoadNames(stmts) \cup detect_entry_point_calls(stmts) =>
                      Recorded(references, seen[k].attr)
                          = Loose(LAMBDA a : a.attr, seen[k].attr)
                /\ Recorded(references, seen[k].base \o <<".">> \o seen[k].attr)
                      = Loose(LAMBDA a : a.base \o <<".">> \o a.attr,
                              seen[k].base \o <<".">> \o seen[k].attr)

\* C25: a worker's references hold module.ClassStack.m, and neither `m` nor
\* `self.m`, for an access self.m or cls.m made inside a class; after
\* aggregation the method of that name has at least one reference and is not
\* reported.
C25_OwnMethodAccessIsQualified ==
    /\ \A i \in 1..Len(results) :
          results[i] # None =>
              OwnAccessesQualified(files[i], parse(files[i]), results[i][1].references)
    /\ Done =>
          \A i \in 1..Len(files) :
              LET seen == Accesses(parse(files[i]), <<>>)
              IN  \A k \in 1..Len(seen), d \in Range(aggregated) :
                      OnOwnClass(seen[k]) /\ d.full_name = OwnMethod(files[i], seen[k]) =>
                          d.references >= 1 /\ d \notin Reported

\* proj/pkg/run.py analyzed alone: the methods helper and build of Service,
\* used through self and cls only, have one reference each and are not
\* reported; idle, which nothing uses, is reported.
C25_Witness ==
    /\ Done
    /\ tree = {<<"p","r","o","j","/","p","k","g","/","r","u","n",".","p","y">>}
    /\ Recorded(results[1][1].references, <<"r","u","n",".","S","e","r","v","i","c","e",".","h","e","l","p","e","r">>) = 1
    /\ Recorded(results[1][1].references, <<"h","e","l","p","e","r">>) = 0
    /\ Recorded(results[1][1].references, <<"s","e","l","f",".","h","e","l","p","e","r">>) = 0
    /\ \E d \in Range(aggregated) :
          d.full_name = <<"r","u","n",".","S","e","r","v","i","c","e",".","h","e","l","p","e","r">> /\ d.references = 1 /\ d \notin Reported
    /\ \E d \in Range(aggregated) :
          d.full_name = <<"r","u","n",".","S","e","r","v","i","c","e",".","b","u","i","l","d">> /\ d.references = 1 /\ d \notin Reported
    /\ \E d \in Reported : d.full_name = <<"r","u","n",".","S","e","r","v","i","c","e",".","i","d","l","e">>

\* ---------------------------------------------------------------------------
\* C26

\* A string that is not empty and holds no space, tab, newline or dot.
NoWhitespaceNoDot(str) ==
    str # <<>> /\ \A i \in 1..Len(str) : str[i] \notin {" ", "\t", "\n", "."}

\* C26: the visitor given a string constant records it as a reference if and
\* only if the string is not empty and holds no whitespace character and no
\* dot.
C26_StringRecordedIffNoWhitespaceNoDot ==
    /\ unit_visitors # None
    /\ Len(unit_body) = 1
    /\ unit_body[1].kind = "Expr"
    /\ unit_body[1].value.kind = "Constant"
    => (Recorded(unit_visitors[1].v.references, unit_body[1].value.value.s) >= 1
            <=> NoWhitespaceNoDot(unit_body[1].value.value.s))

\* ---------------------------------------------------------------------------
\* C27

\* The fields of a definition but confidence and references.
Identity(def) ==
    [name |-> def.name, full_name |-> def.full_name, simple_name |-> def.simple_name,
     def_type |-> def.def_type, file |-> def.file, line |-> def.line,
     is_exported |-> def.is_exported, in_init |-> def.in_init,
     base_classes |-> def.base_classes]

\* How many times a value occurs in a list.
Count(list, x) == Cardinality({k \in 1..Len(list) : list[k] = x})

\* C27: the definitions a worker returns are those its visitor created, in the
\* same order, with nothing but the confidence changed; the aggregated
\* definitions are those of the workers, in the order of the files, with
\* nothing but the references changed; and a definition is in exactly one list
\* of the result when its confidence is not below the threshold and it has no
\* reference, and in none otherwise.
C27_OnlyConfidenceThenReferencesChange ==
    /\ \A i \in 1..Len(results) :
          results[i] # None =>
              LET created == Visited[files[i]].v.definitions
                  returned == results[i][1].definitions
              IN  /\ Len(returned) = Len(created)
                  /\ \A k \in 1..Len(created) :
                        returned[k] = [created[k] EXCEPT !.confidence = returned[k].confidence]
    /\ Done =>
          LET returned == Join([i \in 1..Len(results) |-> results[i][1].definitions], <<>>)
              lists == result.unused_functions \o result.unused_imports
                       \o result.unused_classes \o result.unused_variables
          IN  /\ Len(aggregated) = Len(returned)
              /\ \A k \in 1..Len(returned) :
                    aggregated[k] = [returned[k] EXCEPT !.references = aggregated[k].references]
              /\ \A k \in 1..Len(aggregated) :
                    Count(lists, aggregated[k])
                        = IF /\ aggregated[k].confidence >= confidence_threshold
                             /\ aggregated[k].references = 0
                          THEN Count(aggregated, aggregated[k]) ELSE 0
              /\ \A k \in 1..Len(lists) : lists[k] \in Range(aggregated)

\* proj/app.py and proj/user.py at threshold 60: _private_unused has lost 40
\* of confidence and is reported, regular_unused has got the reference of
\* user.py and is not, __mangled is below the threshold, and every definition
\* has the other fields its visitor gave it.
C27_Witness ==
    /\ Done
    /\ tree = {<<"p","r","o","j","/","a","p","p",".","p","y">>, <<"p","r","o","j","/","u","s","e","r",".","p","y">>}
    /\ confidence_threshold = 60
    /\ \E d \in Reported :
          /\ d.full_name = <<"a","p","p",".","_","p","r","i","v","a","t","e","_","u","n","u","s","e","d">>
          /\ d.confidence = 60
          /\ \E k \in 1..Len(Visited[<<"p","r","o","j","/","a","p","p",".","p","y">>].v.definitions) :
                /\ Identity(Visited[<<"p","r","o","j","/","a","p","p",".","p","y">>].v.definitions[k]) = Identity(d)
                /\ Visited[<<"p","r","o","j","/","a","p","p",".","p","y">>].v.definitions[k].confidence = 100
    /\ \E d \in Range(aggregated) :
          d.full_name = <<"a","p","p",".","r","e","g","u","l","a","r","_","u","n","u","s","e","d">> /\ d.references > 0 /\ d \notin Reported
    /\ \E d \in Range(aggregated) :
          d.confidence < 60 /\ d.references = 0 /\ d \notin Reported

\* ---------------------------------------------------------------------------
\* C28

\* The function and class definitions of the statements, in the order of the
\* text, each with the names of the classes that enclose it, outermost first.
RECURSIVE Enclosed(_, _)
Enclosed(stmts, classes) ==
    Join([i \in 1..Len(stmts) |->
             LET s == stmts[i]
             IN  CASE s.kind \in {"FunctionDef", "AsyncFunctionDef"} ->
                        <<[name |-> s.name, classes |-> classes, class |-> FALSE]>>
                        \o Enclosed(s.body, classes)
                   [] s.kind = "ClassDef" ->
                        <<[name |-> s.name, classes |-> classes, class |-> TRUE]>>
                        \o Enclosed(s.body, Append(classes, s.name))
                   [] s.kind = "If" ->
                        Enclosed(s.body, classes) \o Enclosed(s.orelse, classes)
                   [] OTHER -> <<>>],
         <<>>)

\* C28: the class stack is empty again after the traversal, and the function
\* and class definitions are those of the text, in its order, each with
\* full_name = the module name, the enclosing classes and its name joined by
\* dots, simple_name = the last segment of full_name, and def_type `class`,
\* `method` inside a class and `function` outside.
C28_ClassStackNamesDefinitions ==
    unit_visitors # None =>
        LET expected == Enclosed(unit_body, <<>>)
            found == SelectSeq(unit_visitors[1].v.definitions,
                               LAMBDA d : d.def_type # "import")
        IN  /\ unit_visitors[1].v.class_stack = <<>>
            /\ Len(found) = Len(expected)
            /\ \A k \in 1..Len(expected) :
                  /\ found[k].full_name
                        = Join((IF FileStem(unit_path) # <<>>
                                THEN <<FileStem(unit_path)>> ELSE <<>>)
                               \o expected[k].classes \o <<expected[k].name>>, <<".">>)
                  /\ found[k].simple_name = expected[k].name
                  /\ found[k].simple_name
                        = Split(found[k].full_name, ".")[Len(Split(found[k].full_name, "."))]
                  /\ found[k].def_type
                        = IF expected[k].class THEN "class"
                          ELSE IF expected[k].classes # <<>> THEN "method"
                          ELSE "function"

\* MyClass followed by factory: deep is a method of MyClass.Inner, method and
\* helper, which come after Inner, are methods of MyClass, make is a method
\* of Product, and finish, which comes after Product, is a function.
C28_Witness ==
    /\ unit_visitors # None
    /\ unit_path = <<"t","e","s","t","s","/","s","o","m","e","t","h","i","n","g",".","p","y">>
    /\ Len(unit_body) = 2
    /\ unit_body[1].kind = "ClassDef"
    /\ unit_body[2].kind = "FunctionDef" /\ unit_body[2].name = <<"f","a","c","t","o","r","y">>
    /\ [k \in 1..Len(unit_visitors[1].v.definitions) |->
           <<unit_visitors[1].v.definitions[k].full_name,
             unit_visitors[1].v.definitions[k].def_type>>]
          = << <<<<"s","o","m","e","t","h","i","n","g",".","M","y","C","l","a","s","s">>, "class">>,
               <<<<"s","o","m","e","t","h","i","n","g",".","M","y","C","l","a","s","s",".","I","n","n","e","r">>, "class">>,
               <<<<"s","o","m","e","t","h","i","n","g",".","M","y","C","l","a","s","s",".","I","n","n","e","r",".","d","e","e","p">>, "method">>,
               <<<<"s","o","m","e","t","h","i","n","g",".","M","y","C","l","a","s","s",".","m","e","t","h","o","d">>, "method">>,
               <<<<"s","o","m","e","t","h","i","n","g",".","M","y","C","l","a","s","s",".","h","e","l","p","e","r">>, "method">>,
               <<<<"s","o","m","e","t","h","i","n","g",".","f","a","c","t","o","r","y">>, "function">>,
               <<<<"s","o","m","e","t","h","i","n","g",".","P","r","o","d","u","c","t">>, "class">>,
               <<<<"s","o","m","e","t","h","i","n","g",".","P","r","o","d","u","c","t",".","m","a","k","e">>, "method">>,
               <<<<"s","o","m","e","t","h","i","n","g",".","f","i","n","i","s","h">>, "function">> >>

\* ---------------------------------------------------------------------------
\* C29

\* The names the statements assign, at any depth.
RECURSIVE AssignedNames(_)
AssignedNames(stmts) ==
    UNION {LET s == stmts[i]
           IN  (IF HasBody(s) THEN AssignedNames(s.body) ELSE {})
               \cup (IF s.kind = "If" THEN AssignedNames(s.orelse) ELSE {})
               \cup (IF s.kind = "Assign"
                     THEN {s.targets[k].id : k \in {j \in 1..Len(s.targets) :
                                                       s.targets[j].kind = "Name"}}
                     ELSE {})
           : i \in 1..Len(stmts)}

RECURSIVE ListedInAll(_)
ListedInAll(stmts) ==
    UNION {LET s == stmts[i]
           IN  (IF HasBody(s) THEN ListedInAll(s.body) ELSE {})
               \cup (IF s.kind = "If" THEN ListedInAll(s.orelse) ELSE {})
               \cup (IF /\ s.kind = "Assign"
                        /\ s.targets # <<>>
                        /\ s.targets[1].kind = "Name"
                        /\ s.targets[1].id = <<"_","_","a","l","l","_","_">>
                        /\ s.value.kind = "List"
                     THEN {s.value.elts[k].value.s :
                              k \in {j \in 1..Len(s.value.elts) :
                                        /\ s.value.elts[j].kind = "Constant"
                                        /\ s.value.elts[j].value.type = "Str"}}
                     ELSE {})
           : i \in 1..Len(stmts)}

\* The names the analyzed files list in `__all__`.
AllListed ==
    UNION {ListedInAll(parse(files[i])) : i \in {j \in 1..Len(files) : results[j] # None}}

\* C30: a definition whose simple name an analyzed file lists in `__all__` has
\* the name among the counted references, has at least one reference after
\* aggregation, and is in no list of the result.
C30_ListedInAllIsNotReported ==
    Done =>
        \A i \in 1..Len(aggregated) :
            aggregated[i].simple_name \in AllListed =>
                /\ aggregated[i].simple_name \in DOMAIN ref_counts
                /\ aggregated[i].references >= 1
                /\ \A d \in Reported : d.simple_name # aggregated[i].simple_name

\* proj/pkg/__init__.py lists `spare`, which proj/pkg/run.py defines and
\* nothing else names: run.spare is counted through its simple name, is
\* confident enough to be reported, and is not reported, while run.idle is.
C30_Witness ==
    /\ Done
    /\ tree = {<<"p","r","o","j","/","p","k","g","/","_","_","i","n","i","t","_","_",".","p","y">>, <<"p","r","o","j","/","p","k","g","/","r","u","n",".","p","y">>}
    /\ <<"s","p","a","r","e">> \in AllListed
    /\ <<"r","u","n",".","s","p","a","r","e">> \notin DOMAIN ref_counts
    /\ \E i \in 1..Len(aggregated) :
          /\ aggregated[i].full_name = <<"r","u","n",".","s","p","a","r","e">>
          /\ aggregated[i].file = <<"p","r","o","j","/","p","k","g","/","r","u","n",".","p","y">>
          /\ aggregated[i].references = ref_counts[<<"s","p","a","r","e">>]
          /\ aggregated[i].confidence >= confidence_threshold
          /\ aggregated[i] \notin Reported
    /\ \E d \in Reported : d.simple_name = <<"i","d","l","e">>

====
